---- MODULE Spec2Model ----
(***************************************************************************)
(* A model of the NovelAi-hub REST backend: the Express route tables and   *)
(* their middleware chains, the story handlers (create, update, delete,    *)
(* like, comment) and the user handlers (register, login, profile update,  *)
(* password reset), over a document store holding users and stories.       *)
(*                                                                         *)
(* Every handler is split at its awaits: each database call is one step,   *)
(* so that in-flight requests interleave the way the Node event loop lets  *)
(* them.  A request slot holds the handler's local variables.              *)
(***************************************************************************)
EXTENDS Integers, Sequences, FiniteSets, TLC

VARIABLES
    users,      \* the User collection: a function from the ids present to documents
    stories,    \* the Story collection: a function from the ids present to documents
    reqs,       \* the in-flight requests, one per slot, with their local variables
    assets,     \* the asset host: the ids of the assets published and not retired
    nextId,     \* the next fresh value: an ObjectId, a random token
    now,        \* Date.now()
    creator,    \* history: who created each story (never read by the program)
    server      \* the process: its startup routine and its connection flag

vars == <<users, stories, reqs, assets, nextId, now, creator, server>>

(***************************************************************************)
(* Bounds of the model.                                                    *)
(***************************************************************************)
GateSlots == 1

(***************************************************************************)
(* Request slots.  A slot is idle, walking its middleware chain ("chain"), *)
(* inside a handler (the handler's own program counters) or answered       *)
(* ("done", with the status and message of the response).                  *)
(***************************************************************************)
NoBody == [x \in {} |-> 0]

IdleReq ==
    [pc |-> "idle", h |-> "none", user |-> 0, id |-> 0, body |-> NoBody,
     doc |-> NoBody, status |-> 0, msg |-> "",
     method |-> "", mount |-> "", segs |-> <<>>, chain |-> <<>>, idx |-> 0,
     token |-> 0, file |-> "none", uploadRan |-> FALSE,
     data |-> NoBody, apiKey |-> FALSE, calls |-> <<>>]

Free(r) == reqs[r].pc \in {"idle", "done"}

\* res.status(s).json({success: s < 400, message: m}): the handler returns
\* and its local variables are gone; the slot keeps who asked, for what, and
\* the answer.
Respond(q, s, m) ==
    [q EXCEPT !.pc = "done", !.status = s, !.msg = m, !.body = NoBody, !.doc = NoBody]

(***************************************************************************)
(* The route tables, in registration order.  A path is its segments after  *)
(* the mount point; a segment starting with ":" is a parameter.            *)
(***************************************************************************)
Params == {":id", ":userId"}

storyRoutesSwapped ==
    << [method |-> "GET",    path |-> <<>>,                  chain |-> <<"getStories">>],
       [method |-> "GET",    path |-> <<"user", ":userId">>, chain |-> <<"protect", "getUserStories">>],
       [method |-> "GET",    path |-> <<":id">>,             chain |-> <<"getStoryById">>],
       [method |-> "POST",   path |-> <<>>,                  chain |-> <<"upload", "protect", "createStory">>],
       [method |-> "POST",   path |-> <<"generate">>,        chain |-> <<"protect", "generateAIStory">>],
       [method |-> "PUT",    path |-> <<":id">>,             chain |-> <<"protect", "updateStory">>],
       [method |-> "DELETE", path |-> <<":id">>,             chain |-> <<"protect", "deleteStory">>],
       [method |-> "POST",   path |-> <<":id", "like">>,     chain |-> <<"protect", "toggleLikeStory">>],
       [method |-> "POST",   path |-> <<":id", "comments">>, chain |-> <<"protect", "addComment">>] >>

storyRoutes ==
    << [method |-> "GET",    path |-> <<>>,                  chain |-> <<"getStories">>],
       [method |-> "GET",    path |-> <<"user", ":userId">>, chain |-> <<"protect", "getUserStories">>],
       [method |-> "GET",    path |-> <<":id">>,             chain |-> <<"getStoryById">>],
       [method |-> "POST",   path |-> <<>>,                  chain |-> <<"protect", "upload", "createStory">>],
       [method |-> "POST",   path |-> <<"generate">>,        chain |-> <<"protect", "generateAIStory">>],
       [method |-> "PUT",    path |-> <<":id">>,             chain |-> <<"protect", "updateStory">>],
       [method |-> "DELETE", path |-> <<":id">>,             chain |-> <<"protect", "deleteStory">>],
       [method |-> "POST",   path |-> <<":id", "like">>,     chain |-> <<"protect", "toggleLikeStory">>],
       [method |-> "POST",   path |-> <<":id", "comments">>, chain |-> <<"protect", "addComment">>] >>

userRoutes ==
    << [method |-> "POST",   path |-> <<"register">>,        chain |-> <<"registerUser">>],
       [method |-> "POST",   path |-> <<"login">>,           chain |-> <<"loginUser">>],
       [method |-> "POST",   path |-> <<"forgot-password">>, chain |-> <<"forgotPassword">>],
       [method |-> "POST",   path |-> <<"reset-password">>,  chain |-> <<"resetPassword">>],
       [method |-> "GET",    path |-> <<"profile">>,         chain |-> <<"protect", "getUserProfile">>],
       [method |-> "PUT",    path |-> <<"profile">>,         chain |-> <<"protect", "updateUserProfile">>],
       [method |-> "DELETE", path |-> <<"profile">>,         chain |-> <<"protect", "deleteUserAccount">>],
       [method |-> "POST",   path |-> <<"profile", "picture">>,
        chain |-> <<"protect", "upload", "handleUploadError", "uploadProfilePicture">>] >>

\* app.use('/api/users', userRoutes); app.use('/api/stories', storyRoutes)
Router(mount) == IF mount = "users" THEN userRoutes ELSE storyRoutes

\* Express matches a layer when the method is the layer's and every segment
\* is the layer's literal or stands in a parameter's place.
Matches(route, method, segs) ==
    /\ route.method = method
    /\ Len(route.path) = Len(segs)
    /\ \A i \in 1..Len(segs) : route.path[i] \in Params \/ route.path[i] = segs[i]

\* The first layer, in registration order, that matches; 0 when none does
\* (the request falls through to the API 404 handler).
FirstMatch(mount, method, segs) ==
    LET table == Router(mount)
        hits == {i \in 1..Len(table) : Matches(table[i], method, segs)}
    IN  IF hits = {} THEN 0 ELSE CHOOSE i \in hits : \A j \in hits : i <= j

Middleware == {"protect", "upload", "handleUploadError"}

\* The value a path parameter takes: the id the segment spells.
ParseId(seg) ==
    CASE seg = "1" -> 1 [] seg = "2" -> 2 [] seg = "10" -> 10 [] seg = "11" -> 11 [] OTHER -> 0

ParamOf(q) ==
    LET route == Router(q.mount)[FirstMatch(q.mount, q.method, q.segs)]
        at == {i \in 1..Len(route.path) : route.path[i] \in Params}
    IN  IF at = {} THEN 0 ELSE ParseId(q.segs[CHOOSE i \in at : TRUE])

(***************************************************************************)
(* The requests the edge is driven with.                                   *)
(***************************************************************************)
HttpRequests ==
    {[method |-> m, mount |-> "stories", segs |-> s] :
        m \in {"GET", "POST", "PUT", "DELETE"},
        s \in {<<>>, <<"10">>, <<"user", "1">>, <<"generate">>, <<"10", "like">>, <<"10", "comments">>}}
    \cup
    {[method |-> m, mount |-> "users", segs |-> s] :
        m \in {"GET", "POST", "PUT", "DELETE"},
        s \in {<<"register">>, <<"login">>, <<"forgot-password">>, <<"reset-password">>,
               <<"profile">>, <<"profile", "picture">>}}

Tokens == {0, 1}            \* 0: no token, or one whose signature fails; u: a token signed for user u
Files == {"none", "ok", "bad"}   \* the multipart part: absent, accepted, refused by multer

\* A request arrives: Express finds its route and enters the chain.
Arrive(r, http, token, file) ==
    /\ Free(r)
    /\ LET k == FirstMatch(http.mount, http.method, http.segs)
       IN  reqs' = [reqs EXCEPT ![r] =
               IF k = 0
               THEN Respond([IdleReq EXCEPT !.method = http.method, !.mount = http.mount,
                                            !.segs = http.segs, !.token = token],
                            404, "API endpoint not found")
               ELSE [IdleReq EXCEPT !.pc = "chain", !.method = http.method,
                                    !.mount = http.mount, !.segs = http.segs,
                                    !.chain = Router(http.mount)[k].chain, !.idx = 1,
                                    !.token = token, !.file = file]]
    /\ UNCHANGED <<users, stories, assets, nextId, now, creator, server>>

AtChain(r, name) ==
    /\ reqs[r].pc = "chain"
    /\ reqs[r].idx <= Len(reqs[r].chain)
    /\ reqs[r].chain[reqs[r].idx] = name

\* protect: a valid token resolves to its owner's identity and the chain
\* goes on; anything else is answered 401.
Protect(r) ==
    /\ AtChain(r, "protect")
    /\ reqs' = [reqs EXCEPT ![r] =
            IF reqs[r].token = 0
            THEN Respond(@, 401, "Not authorized")
            ELSE [@ EXCEPT !.user = reqs[r].token, !.idx = @ + 1]]
    /\ UNCHANGED <<users, stories, assets, nextId, now, creator, server>>

\* The error-handling middleware that answers a failed upload: the chain's
\* own handleUploadError (400) when it has one after the current position,
\* else the application's error handler (500).
UploadErrorStatus(q) ==
    IF \E i \in (q.idx + 1)..Len(q.chain) : q.chain[i] = "handleUploadError"
    THEN 400 ELSE 500

\* upload.single('image'): multer reads the part into req.file, or fails
\* with an error that skips the rest of the chain.
Upload(r) ==
    /\ AtChain(r, "upload")
    /\ reqs' = [reqs EXCEPT ![r] =
            IF reqs[r].file = "bad"
            THEN Respond([@ EXCEPT !.uploadRan = TRUE], UploadErrorStatus(@), "upload refused")
            ELSE [@ EXCEPT !.uploadRan = TRUE, !.idx = @ + 1]]
    /\ UNCHANGED <<users, stories, assets, nextId, now, creator, server>>

\* handleUploadError takes four arguments: Express skips it while no error
\* is being passed along.
SkipErrorHandler(r) ==
    /\ AtChain(r, "handleUploadError")
    /\ reqs' = [reqs EXCEPT ![r].idx = @ + 1]
    /\ UNCHANGED <<users, stories, assets, nextId, now, creator, server>>

\* The chain reaches the handler: its body starts with req.user and the
\* path parameter as the chain left them.
EnterHandler(r) ==
    /\ reqs[r].pc = "chain"
    /\ reqs[r].idx <= Len(reqs[r].chain)
    /\ reqs[r].chain[reqs[r].idx] \notin Middleware
    /\ reqs' = [reqs EXCEPT ![r] =
            [@ EXCEPT !.pc = "handler", !.h = reqs[r].chain[reqs[r].idx], !.id = ParamOf(reqs[r])]]
    /\ UNCHANGED <<users, stories, assets, nextId, now, creator, server>>

(***************************************************************************)
(* Strings.  The handlers look at a string's length, trim it and split it  *)
(* on runs of whitespace, so a string is kept as its runs: W(n) is n       *)
(* characters that are not whitespace, S(n) is n whitespace characters,    *)
(* and the two kinds alternate.  The empty string is <<>>.                 *)
(***************************************************************************)
W(n) == [ws |-> FALSE, n |-> n]
S(n) == [ws |-> TRUE, n |-> n]

RECURSIVE StrLen(_)
StrLen(s) == IF s = <<>> THEN 0 ELSE Head(s).n + StrLen(Tail(s))

\* String.prototype.trim
Trim(s) ==
    LET a == IF s # <<>> /\ Head(s).ws THEN Tail(s) ELSE s
    IN  IF a # <<>> /\ a[Len(a)].ws THEN SubSeq(a, 1, Len(a) - 1) ELSE a

\* s.split(/\s+/).length: one piece more than there are whitespace runs
\* (the empty string splits into the one piece "").
SplitLength(s) == Cardinality({i \in 1..Len(s) : s[i].ws}) + 1

\* content.trim().split(/\s+/).length
CountWords(content) == SplitLength(Trim(content))

\* !s, for a string
Falsy(s) == s = <<>>

Has(body, f) == f \in DOMAIN body
\* !body.f: the field is missing or the empty string
Missing(body, f) == ~Has(body, f) \/ Falsy(body[f])

(***************************************************************************)
(* The Story schema.                                                       *)
(***************************************************************************)
TitleMaxLength == 100
ContentMinLength == 100

SchemaGenres ==
    {"fantasy", "romance", "mystery", "science-fiction", "horror", "thriller",
     "historical-fiction", "adventure", "young-adult", "literary-fiction",
     "dystopian", "paranormal", "contemporary", "crime", "drama", "comedy",
     "action", "slice-of-life", "supernatural", "psychological"}

\* The validators of the paths a write touches; `f` names the path, `x`
\* the value after the path's setter.
PathValidOffByOne(f, x) ==
    CASE f = "title"     -> x # <<>> /\ StrLen(x) <= TitleMaxLength
      [] f = "content"   -> x # <<>> /\ StrLen(x) >= ContentMinLength - 1
      [] f = "genre"     -> x \in SchemaGenres
      [] f = "wordCount" -> x >= 1
      [] OTHER           -> TRUE

PathValid(f, x) ==
    CASE f = "title"     -> x # <<>> /\ StrLen(x) <= TitleMaxLength
      [] f = "content"   -> x # <<>> /\ StrLen(x) >= ContentMinLength
      [] f = "genre"     -> x \in SchemaGenres
      [] f = "wordCount" -> x >= 1
      [] OTHER           -> TRUE

\* The setter of a path: title is declared trim: true.
PathSet(f, x) == IF f = "title" THEN Trim(x) ELSE x

\* The paths of the schema a request body can name.
StoryPaths ==
    {"title", "content", "genre", "author", "isAIGenerated", "wordCount", "likes", "comments"}

(***************************************************************************)
(* createStory                                                             *)
(***************************************************************************)
validGenres == {"fantasy", "romance", "mystery", "science-fiction", "horror"}

\* The controller's own checks, in order: "" when the body passes.
CreateRejection(body) ==
    CASE Missing(body, "title") \/ Missing(body, "content") \/ ~Has(body, "genre")
                \/ body.genre = ""
            -> "Title, content, and genre are required"
      [] StrLen(body.content) < ContentMinLength
            -> "Content must be at least 100 characters long"
      [] StrLen(body.title) > TitleMaxLength
            -> "Title cannot be more than 100 characters"
      [] body.genre \notin validGenres
            -> "not a supported genre"
      [] OTHER -> ""

\* The document Story.create builds; the pre-save hook recomputes
\* wordCount because content is modified on a new document.
NewStory(body, author, image) ==
    [title |-> PathSet("title", body.title), content |-> body.content,
     genre |-> body.genre, author |-> author,
     isAIGenerated |-> IF Has(body, "isAIGenerated") THEN body.isAIGenerated ELSE FALSE,
     likes |-> <<>>, comments |-> <<>>,
     wordCount |-> CountWords(body.content),
     status |-> "published", image |-> image, v |-> 0,
     createdAt |-> now]

DocValid(doc) ==
    \A f \in {"title", "content", "genre", "wordCount"} : PathValid(f, doc[f])

\* The handler up to Story.create: the image, when the request carries
\* one, is published first; then the body is checked and the document
\* inserted.
CreateStoryUpload(r) ==
    /\ reqs[r].pc = "handler" /\ reqs[r].h = "createStory"
    /\ reqs[r].file = "ok"
    /\ \E ok \in BOOLEAN :
        IF ok
        THEN LET asset == Cardinality(assets) + 1
             IN  /\ assets' = assets \cup {asset}
                 /\ reqs' = [reqs EXCEPT ![r] = [@ EXCEPT !.pc = "createInsert", !.doc = [image |-> asset]]]
        ELSE /\ reqs' = [reqs EXCEPT ![r] = Respond(@, 400, "Error uploading to Cloudinary")]
             /\ UNCHANGED assets
    /\ UNCHANGED <<users, stories, nextId, now, creator, server>>

CreateStoryInsert(r) ==
    /\ \/ reqs[r].pc = "handler" /\ reqs[r].h = "createStory" /\ reqs[r].file # "ok"
       \/ reqs[r].pc = "createInsert"
    /\ LET q == reqs[r]
           why == CreateRejection(q.body)
           image == IF q.pc = "createInsert" THEN q.doc.image ELSE 0
       IN  IF why # ""
           THEN /\ reqs' = [reqs EXCEPT ![r] = Respond(@, 400, why)]
                /\ UNCHANGED <<stories, nextId, creator, server>>
           ELSE LET doc == NewStory(q.body, q.user, image)
                IN  IF ~DocValid(doc)
                    THEN /\ reqs' = [reqs EXCEPT ![r] = Respond(@, 400, "Story validation failed")]
                         /\ UNCHANGED <<stories, nextId, creator, server>>
                    ELSE /\ stories' = (nextId :> doc) @@ stories
                         /\ creator' = (nextId :> q.user) @@ creator
                         /\ nextId' = nextId + 1
                         /\ reqs' = [reqs EXCEPT ![r] = [@ EXCEPT !.pc = "createPush", !.id = nextId]]
    /\ UNCHANGED <<users, assets, now, server>>

\* User.findByIdAndUpdate(req.user._id, { $push: { stories: story._id } })
CreateStoryPush(r) ==
    /\ reqs[r].pc = "createPush"
    /\ users' = IF reqs[r].user \in DOMAIN users
                THEN [users EXCEPT ![reqs[r].user].stories = Append(@, reqs[r].id)]
                ELSE users
    /\ reqs' = [reqs EXCEPT ![r].pc = "createRead"]
    /\ UNCHANGED <<stories, assets, nextId, now, creator, server>>

\* Story.findById(story._id).populate(...), then the 201
CreateStoryRead(r) ==
    /\ reqs[r].pc = "createRead"
    /\ reqs' = [reqs EXCEPT ![r] = Respond(@, 201, "")]
    /\ UNCHANGED <<users, stories, assets, nextId, now, creator, server>>

(***************************************************************************)
(* updateStory                                                             *)
(***************************************************************************)
\* Story.findById, the two early returns, and the word count put into the
\* body when the body has content.
UpdateStoryFindNoAuthorCheck(r) ==
    /\ reqs[r].pc = "handler" /\ reqs[r].h = "updateStory"
    /\ LET q == reqs[r] IN
        reqs' = [reqs EXCEPT ![r] =
            IF q.id \notin DOMAIN stories
            THEN Respond(@, 404, "Story not found")
            ELSE [@ EXCEPT !.pc = "updateWrite", !.doc = stories[q.id],
                           !.body = IF ~Missing(q.body, "content")
                                    THEN [f \in DOMAIN q.body \cup {"wordCount"} |->
                                            IF f = "wordCount" THEN CountWords(q.body.content)
                                            ELSE q.body[f]]
                                    ELSE q.body]]
    /\ UNCHANGED <<users, stories, assets, nextId, now, creator, server>>

UpdateStoryFind(r) ==
    /\ reqs[r].pc = "handler" /\ reqs[r].h = "updateStory"
    /\ LET q == reqs[r] IN
        reqs' = [reqs EXCEPT ![r] =
            IF q.id \notin DOMAIN stories
            THEN Respond(@, 404, "Story not found")
            ELSE IF stories[q.id].author # q.user
            THEN Respond(@, 401, "Not authorized to update this story")
            ELSE [@ EXCEPT !.pc = "updateWrite", !.doc = stories[q.id],
                           !.body = IF ~Missing(q.body, "content")
                                    THEN [f \in DOMAIN q.body \cup {"wordCount"} |->
                                            IF f = "wordCount" THEN CountWords(q.body.content)
                                            ELSE q.body[f]]
                                    ELSE q.body]]
    /\ UNCHANGED <<users, stories, assets, nextId, now, creator, server>>

\* What findByIdAndUpdate(id, { ...body }) writes: every path of the
\* schema the body names is $set to the body's value.
ApplyUpdate(doc, body) ==
    [f \in DOMAIN doc |->
        IF f \in StoryPaths /\ Has(body, f) THEN PathSet(f, body[f]) ELSE doc[f]]

\* runValidators: the validators of the paths the update sets.
UpdateValid(body) ==
    \A f \in DOMAIN body \cap StoryPaths : PathValid(f, PathSet(f, body[f]))

UpdateStoryWrite(r) ==
    /\ reqs[r].pc = "updateWrite"
    /\ LET q == reqs[r] IN
        IF ~UpdateValid(q.body)
        THEN /\ reqs' = [reqs EXCEPT ![r] = Respond(@, 400, "Validation failed")]
             /\ UNCHANGED stories
        ELSE /\ stories' = IF q.id \in DOMAIN stories
                           THEN [stories EXCEPT ![q.id] = ApplyUpdate(@, q.body)]
                           ELSE stories
             /\ reqs' = [reqs EXCEPT ![r] = Respond(@, 200, "")]
    /\ UNCHANGED <<users, assets, nextId, now, creator, server>>

(***************************************************************************)
(* deleteStory                                                             *)
(***************************************************************************)
Without(seq, x) == SelectSeq(seq, LAMBDA y : y # x)

DeleteStoryFind(r) ==
    /\ reqs[r].pc = "handler" /\ reqs[r].h = "deleteStory"
    /\ LET q == reqs[r] IN
        reqs' = [reqs EXCEPT ![r] =
            IF q.id \notin DOMAIN stories
            THEN Respond(@, 404, "Story not found")
            ELSE IF stories[q.id].author # q.user
            THEN Respond(@, 401, "Not authorized to delete this story")
            ELSE [@ EXCEPT !.pc = "deletePull", !.doc = stories[q.id]]]
    /\ UNCHANGED <<users, stories, assets, nextId, now, creator, server>>

\* User.findByIdAndUpdate(req.user._id, { $pull: { stories: story._id } })
DeleteStoryPull(r) ==
    /\ reqs[r].pc = "deletePull"
    /\ users' = IF reqs[r].user \in DOMAIN users
                THEN [users EXCEPT ![reqs[r].user].stories = Without(@, reqs[r].id)]
                ELSE users
    /\ reqs' = [reqs EXCEPT ![r].pc = "deleteRemove"]
    /\ UNCHANGED <<stories, assets, nextId, now, creator, server>>

\* Story.deleteOne({ _id: story._id }), then the 200
DeleteStoryRemove(r) ==
    /\ reqs[r].pc = "deleteRemove"
    /\ stories' = [i \in DOMAIN stories \ {reqs[r].id} |-> stories[i]]
    /\ reqs' = [reqs EXCEPT ![r] = Respond(@, 200, "Story deleted successfully")]
    /\ UNCHANGED <<users, assets, nextId, now, creator, server>>

(***************************************************************************)
(* Document.save() of a document read earlier.  Mongoose sends only what   *)
(* the handler changed: a push onto an array goes out as $push and bumps   *)
(* the version key without comparing it; an array assigned as a whole goes *)
(* out as $set guarded by the version key the document was read with.      *)
(* A document that is gone, or a guard that fails, rejects the save.       *)
(***************************************************************************)
MaxVersion == 4

\* A variant in which no save compares the version key.
SaveOutcomeLastWriteWins(id, op, readVersion) ==
    IF id \notin DOMAIN stories THEN "DocumentNotFoundError" ELSE "ok"

SaveOutcome(id, op, readVersion) ==
    CASE id \notin DOMAIN stories -> "DocumentNotFoundError"
      [] op = "set" /\ stories[id].v # readVersion -> "VersionError"
      [] OTHER -> "ok"

(***************************************************************************)
(* toggleLikeStory                                                         *)
(***************************************************************************)
Includes(seq, x) == \E i \in 1..Len(seq) : seq[i] = x

\* The handler's change to its copy of likes: the requester is filtered
\* out when present, pushed when absent.
ToggledLikes(likes, u) ==
    IF Includes(likes, u) THEN Without(likes, u) ELSE Append(likes, u)

\* Story.findById, then the change made to the handler's own copy.
ToggleLikeFind(r) ==
    /\ reqs[r].pc = "handler" /\ reqs[r].h = "toggleLikeStory"
    /\ LET q == reqs[r] IN
        reqs' = [reqs EXCEPT ![r] =
            IF q.id \notin DOMAIN stories
            THEN Respond(@, 404, "Story not found")
            ELSE LET story == stories[q.id]
                     isLiked == Includes(story.likes, q.user)
                 IN  [@ EXCEPT !.pc = "likeSave",
                               !.doc = [likes |-> ToggledLikes(story.likes, q.user),
                                        v |-> story.v,
                                        op |-> IF isLiked THEN "set" ELSE "push",
                                        isLiked |-> isLiked]]]
    /\ UNCHANGED <<users, stories, assets, nextId, now, creator, server>>

\* What the save of a toggled copy leaves in the stored likes.
SavedLikes(stored, q) ==
    IF q.doc.op = "push" THEN Append(stored, q.user) ELSE q.doc.likes

\* story.save(), then the response { likes: story.likes.length, isLiked: !isLiked }
ToggleLikeSave(r) ==
    /\ reqs[r].pc = "likeSave"
    /\ LET q == reqs[r]
           outcome == SaveOutcome(q.id, q.doc.op, q.doc.v)
       IN  IF outcome # "ok"
           THEN /\ reqs' = [reqs EXCEPT ![r] = Respond(@, 400, outcome)]
                /\ UNCHANGED stories
           ELSE /\ stories[q.id].v < MaxVersion
                /\ stories' = [stories EXCEPT ![q.id].likes = SavedLikes(@, q),
                                              ![q.id].v = @ + 1]
                /\ reqs' = [reqs EXCEPT ![r] = Respond(@, 200, "")]
    /\ UNCHANGED <<users, assets, nextId, now, creator, server>>

(***************************************************************************)
(* addComment                                                              *)
(***************************************************************************)
MaxComments == 1

\* Story.findById, then story.comments.push({ user, content })
AddCommentFind(r) ==
    /\ reqs[r].pc = "handler" /\ reqs[r].h = "addComment"
    /\ LET q == reqs[r] IN
        reqs' = [reqs EXCEPT ![r] =
            IF q.id \notin DOMAIN stories
            THEN Respond(@, 404, "Story not found")
            ELSE [@ EXCEPT !.pc = "commentSave",
                           !.doc = [v |-> stories[q.id].v, op |-> "push"]]]
    /\ UNCHANGED <<users, stories, assets, nextId, now, creator, server>>

\* The comment subdocument: content is required and trimmed, createdAt
\* defaults to Date.now.
NewComment(q) ==
    [user |-> q.user,
     content |-> IF Has(q.body, "content") THEN Trim(q.body.content) ELSE <<>>,
     createdAt |-> now]

\* story.save(): the pushed comment is validated, then $push'ed.
AddCommentSave(r) ==
    /\ reqs[r].pc = "commentSave"
    /\ LET q == reqs[r]
           outcome == SaveOutcome(q.id, q.doc.op, q.doc.v)
       IN  IF NewComment(q).content = <<>>
           THEN /\ reqs' = [reqs EXCEPT ![r] = Respond(@, 400, "Story validation failed")]
                /\ UNCHANGED stories
           ELSE IF outcome # "ok"
           THEN /\ reqs' = [reqs EXCEPT ![r] = Respond(@, 400, outcome)]
                /\ UNCHANGED stories
           ELSE /\ stories[q.id].v < MaxVersion
                /\ Len(stories[q.id].comments) < MaxComments
                /\ stories' = [stories EXCEPT ![q.id].comments = Append(@, NewComment(q)),
                                              ![q.id].v = @ + 1]
                /\ reqs' = [reqs EXCEPT ![r].pc = "commentRead"]
    /\ UNCHANGED <<users, assets, nextId, now, creator, server>>

\* Story.findById(req.params.id).populate(...): the 201 carries
\* populatedStory.comments, which throws when the story is gone by now.
AddCommentRead(r) ==
    /\ reqs[r].pc = "commentRead"
    /\ reqs' = [reqs EXCEPT ![r] =
            IF reqs[r].id \in DOMAIN stories
            THEN Respond(@, 201, "")
            ELSE Respond(@, 400, "Cannot read properties of null")]
    /\ UNCHANGED <<users, stories, assets, nextId, now, creator, server>>

(***************************************************************************)
(* Profile pictures.  A user's profilePicture is 0 when it has none,       *)
(* DefaultAvatar when it is the URL of the default avatar, else the id of  *)
(* the asset it points at; assets holds the assets published at the host   *)
(* and not retired.  The slot's calls lists the calls the request has made *)
(* to the asset host, with their outcomes.  Of the files multer lets       *)
(* through, "ok" is a JPEG, PNG or GIF and "otherImage" an image of        *)
(* another type under an allowed extension.                                *)
(***************************************************************************)
DefaultAvatar == -1

validateImage(file) ==
    CASE file = "none" -> ""
      [] file = "otherImage" -> "Please upload a valid image file (JPEG, PNG, or GIF)"
      [] file = "bad" -> "Image size should be less than 5MB"
      [] OTHER -> ""

\* oldPublicId && !oldPublicId.includes('default-avatar')
Retirable(picture) == picture # 0 /\ picture # DefaultAvatar

\* deleteFromCloudinary: the destroy call succeeds and the asset is gone, or
\* it fails and the error is logged; either way the caller goes on.
DeleteFromCloudinaryThrows(r, publicId, next) ==
    \E ok \in BOOLEAN :
        /\ assets' = IF ok THEN assets \ {publicId} ELSE assets
        /\ reqs' = [reqs EXCEPT ![r] =
                IF ok
                THEN [@ EXCEPT !.pc = next, !.calls = Append(@, "retire ok")]
                ELSE [Respond(@, 500, "Server error") EXCEPT !.calls = Append(@, "retire error")]]

DeleteFromCloudinary(r, publicId, next) ==
    \E ok \in BOOLEAN :
        /\ assets' = IF ok THEN assets \ {publicId} ELSE assets
        /\ reqs' = [reqs EXCEPT ![r] =
                [@ EXCEPT !.pc = next,
                          !.calls = Append(@, IF ok THEN "retire ok" ELSE "retire error")]]

\* The two checks of the file, then User.findById(req.user._id).
PictureFind(r) ==
    /\ reqs[r].pc = "handler" /\ reqs[r].h = "uploadProfilePicture"
    /\ LET q == reqs[r] IN
        reqs' = [reqs EXCEPT ![r] =
            IF q.file = "none" THEN Respond(@, 400, "Please upload an image file")
            ELSE IF validateImage(q.file) # "" THEN Respond(@, 400, validateImage(q.file))
            ELSE IF q.user \notin DOMAIN users THEN Respond(@, 404, "User not found")
            ELSE [@ EXCEPT !.pc = "pictureUpload", !.doc = [old |-> users[q.user].profilePicture]]]
    /\ UNCHANGED <<users, stories, assets, nextId, now, creator, server>>

PictureUploadKeepsGoing(r) ==
    /\ reqs[r].pc = "pictureUpload"
    /\ \E ok \in BOOLEAN :
        IF ok
        THEN /\ assets' = assets \cup {nextId}
             /\ nextId' = nextId + 1
             /\ reqs' = [reqs EXCEPT ![r] =
                    [@ EXCEPT !.pc = IF Retirable(reqs[r].doc.old) THEN "pictureRetire" ELSE "pictureSave",
                              !.doc = [old |-> reqs[r].doc.old, new |-> nextId],
                              !.calls = Append(@, "publish ok")]]
        ELSE /\ reqs' = [reqs EXCEPT ![r] =
                    [@ EXCEPT !.pc = IF Retirable(reqs[r].doc.old) THEN "pictureRetire" ELSE "done",
                              !.status = 500,
                              !.doc = [old |-> reqs[r].doc.old, new |-> reqs[r].doc.old],
                              !.calls = Append(@, "publish error")]]
             /\ UNCHANGED <<assets, nextId>>
    /\ UNCHANGED <<users, stories, now, creator, server>>

\* uploadToCloudinary: the asset is published, or the call throws and the
\* handler's catch answers 500.
PictureUpload(r) ==
    /\ reqs[r].pc = "pictureUpload"
    /\ \E ok \in BOOLEAN :
        IF ok
        THEN /\ assets' = assets \cup {nextId}
             /\ nextId' = nextId + 1
             /\ reqs' = [reqs EXCEPT ![r] =
                    [@ EXCEPT !.pc = IF Retirable(reqs[r].doc.old) THEN "pictureRetire" ELSE "pictureSave",
                              !.doc = [old |-> reqs[r].doc.old, new |-> nextId],
                              !.calls = Append(@, "publish ok")]]
        ELSE /\ reqs' = [reqs EXCEPT ![r] =
                    [Respond(@, 500, "Server error while uploading profile picture")
                        EXCEPT !.calls = Append(@, "publish error")]]
             /\ UNCHANGED <<assets, nextId>>
    /\ UNCHANGED <<users, stories, now, creator, server>>

\* await deleteFromCloudinary(oldPublicId)
PictureRetire(r) ==
    /\ reqs[r].pc = "pictureRetire"
    /\ DeleteFromCloudinary(r, reqs[r].doc.old, "pictureSave")
    /\ UNCHANGED <<users, stories, nextId, now, creator, server>>

\* user.profilePicture = uploadResult.url; await user.save(); the save
\* throws when the document is gone and may throw when the database fails,
\* and the handler's catch answers 500.
PictureSave(r) ==
    /\ reqs[r].pc = "pictureSave"
    /\ LET q == reqs[r] IN
        \E ok \in BOOLEAN :
            IF q.user \notin DOMAIN users \/ ~ok
            THEN /\ reqs' = [reqs EXCEPT ![r] = Respond(@, 500, "Server error while uploading profile picture")]
                 /\ UNCHANGED users
            ELSE /\ users' = [users EXCEPT ![q.user].profilePicture = q.doc.new]
                 /\ reqs' = [reqs EXCEPT ![r] =
                        [Respond(@, 200, "") EXCEPT !.data = [profilePicture |-> q.doc.new]]]
    /\ UNCHANGED <<stories, assets, nextId, now, creator, server>>

(***************************************************************************)
(* deleteUserAccount                                                       *)
(***************************************************************************)
DeleteAccountFind(r) ==
    /\ reqs[r].pc = "handler" /\ reqs[r].h = "deleteUserAccount"
    /\ LET q == reqs[r] IN
        reqs' = [reqs EXCEPT ![r] =
            IF q.user \notin DOMAIN users THEN Respond(@, 404, "User not found")
            ELSE [@ EXCEPT !.pc = IF Retirable(users[q.user].profilePicture)
                                  THEN "accountRetire" ELSE "accountDelete",
                           !.doc = [old |-> users[q.user].profilePicture]]]
    /\ UNCHANGED <<users, stories, assets, nextId, now, creator, server>>

DeleteAccountRetire(r) ==
    /\ reqs[r].pc = "accountRetire"
    /\ DeleteFromCloudinary(r, reqs[r].doc.old, "accountDelete")
    /\ UNCHANGED <<users, stories, nextId, now, creator, server>>

\* A variant whose removal cascades to the stories the user wrote.
DeleteAccountCascades(r) ==
    /\ reqs[r].pc = "accountDelete"
    /\ users' = [u \in DOMAIN users \ {reqs[r].user} |-> users[u]]
    /\ stories' = [i \in {j \in DOMAIN stories : stories[j].author # reqs[r].user} |-> stories[i]]
    /\ reqs' = [reqs EXCEPT ![r] = Respond(@, 200, "User account deleted successfully")]
    /\ UNCHANGED <<assets, nextId, now, creator, server>>

\* User.deleteOne({ _id: user._id }), then the 200
DeleteAccountRemove(r) ==
    /\ reqs[r].pc = "accountDelete"
    /\ users' = [u \in DOMAIN users \ {reqs[r].user} |-> users[u]]
    /\ reqs' = [reqs EXCEPT ![r] = Respond(@, 200, "User account deleted successfully")]
    /\ UNCHANGED <<stories, assets, nextId, now, creator, server>>

(***************************************************************************)
(* The process.  server.pc and server.i are where connectWithRetry stands  *)
(* and its loop counter, dbConnected is the module's flag, listening is    *)
(* set once app.listen has run.  attempts and succeeded are history: how   *)
(* many times connectDB was called and whether a call of it connected.     *)
(***************************************************************************)
Retries == 5
Interval == 5000

\* The process as the module starts to load, and as it is while it serves
\* the API with the database connected.
Booting ==
    [pc |-> "attempt", i |-> 0, dbConnected |-> FALSE, listening |-> FALSE,
     attempts |-> 0, succeeded |-> FALSE]
Serving ==
    [pc |-> "finished", i |-> 0, dbConnected |-> TRUE, listening |-> TRUE,
     attempts |-> 1, succeeded |-> TRUE]

\* What a call of connectDB comes to: it resolves to true once mongoose has
\* connected; every error is caught inside it and it resolves to false.
connectDB == {"true", "false"}

\* One pass of the loop of connectWithRetry: the flag takes what connectDB
\* resolved to and a true ends the loop; the wait for the interval is in
\* the catch, which runs when the awaited call throws.
ConnectAttempt ==
    /\ server.pc = "attempt"
    /\ \E result \in connectDB :
        LET after(i) == IF i < Retries THEN "attempt" ELSE "finished" IN
        CASE result = "true" ->
                /\ server' = [server EXCEPT !.dbConnected = TRUE, !.pc = "finished",
                                            !.attempts = @ + 1, !.succeeded = TRUE]
                /\ UNCHANGED now
          [] result = "false" ->
                /\ server' = [server EXCEPT !.dbConnected = FALSE, !.i = @ + 1,
                                            !.pc = after(server.i + 1), !.attempts = @ + 1]
                /\ UNCHANGED now
          [] OTHER ->
                /\ server' = [server EXCEPT !.i = @ + 1, !.pc = after(server.i + 1),
                                            !.attempts = @ + 1]
                /\ now' = IF server.i < Retries - 1 THEN now + Interval ELSE now
    /\ UNCHANGED <<users, stories, reqs, assets, nextId, creator>>

\* startServer: app.listen
StartServer ==
    /\ ~server.listening
    /\ server' = [server EXCEPT !.listening = TRUE]
    /\ UNCHANGED <<users, stories, reqs, assets, nextId, now, creator>>

HealthAlwaysOk(r) ==
    /\ server.listening /\ Free(r)
    /\ reqs' = [reqs EXCEPT ![r] =
            [Respond([IdleReq EXCEPT !.h = "health", !.method = "GET"], 200, "")
                EXCEPT !.data = [status |-> "ok", database |-> "connected"]]]
    /\ UNCHANGED <<users, stories, assets, nextId, now, creator, server>>

\* GET /health
Health(r) ==
    /\ server.listening /\ Free(r)
    /\ reqs' = [reqs EXCEPT ![r] =
            [Respond([IdleReq EXCEPT !.h = "health", !.method = "GET"], 200, "")
                EXCEPT !.data = [status |-> IF server.dbConnected THEN "ok" ELSE "degraded",
                                 database |-> IF server.dbConnected THEN "connected"
                                              ELSE "disconnected"]]]
    /\ UNCHANGED <<users, stories, assets, nextId, now, creator, server>>

(***************************************************************************)
(* getStories.  The query string is the slot's body: page, limit and genre *)
(* as the strings the caller wrote, each present or not.  The data of the  *)
(* response lists the stories by id.  The doc of a finished listing keeps  *)
(* what the request was and which stories matched at its two reads.        *)
(***************************************************************************)
\* parseInt of a query value, for the values used: the set holding the
\* number, empty for NaN.
ParseInt(query, f) ==
    IF ~Has(query, f) THEN {}
    ELSE CASE query[f] = "-1" -> {-1}
           [] query[f] = "0" -> {0}
           [] query[f] = "1" -> {1}
           [] query[f] = "2" -> {2}
           [] query[f] = "3" -> {3}
           [] OTHER -> {}

\* parsed || d : NaN and 0 are falsy
OrDefault(parsed, d) == IF parsed = {} \/ parsed = {0} THEN d ELSE CHOOSE n \in parsed : TRUE

\* The stories the query object selects.
Matching(query) ==
    { i \in DOMAIN stories : Has(query, "genre") /\ query.genre # "" => stories[i].genre = query.genre }

\* sort({ createdAt: -1 }): the orders of the matching stories in which no
\* story comes before a newer one.  Stories created at the same instant
\* come in whichever order the database yields them.
SortedNewestFirst(ids) ==
    { order \in [1..Cardinality(ids) -> ids] :
        /\ \A a, b \in 1..Cardinality(ids) : a # b => order[a] # order[b]
        /\ \A a, b \in 1..Cardinality(ids) :
                a < b => stories[order[a]].createdAt >= stories[order[b]].createdAt }

\* skip(startIndex).limit(limit)
SkipLimit(order, startIndex, limit) ==
    [k \in 1..(IF Len(order) - startIndex < 0 THEN 0
               ELSE IF Len(order) - startIndex < limit THEN Len(order) - startIndex
               ELSE limit) |-> order[startIndex + k]]

\* The database refuses a find whose skip is negative.
SkipRefused(startIndex) == startIndex < 0

\* Math.ceil(total / limit)
Ceil(total, limit) == (total + limit - 1) \div limit

\* Story.find(query).sort(...).skip(...).limit(...)
GetStoriesFind(r) ==
    /\ reqs[r].pc = "handler" /\ reqs[r].h = "getStories"
    /\ LET q == reqs[r]
           page == OrDefault(ParseInt(q.body, "page"), 1)
           limit == OrDefault(ParseInt(q.body, "limit"), 10)
           startIndex == (page - 1) * limit
       IN  IF SkipRefused(startIndex)
           THEN reqs' = [reqs EXCEPT ![r] = Respond(@, 400, "Skip value must be non-negative")]
           ELSE
           \E order \in SortedNewestFirst(Matching(q.body)) :
               reqs' = [reqs EXCEPT ![r] =
                   [@ EXCEPT !.pc = "listCount",
                             !.doc = [stories |-> SkipLimit(order, startIndex, limit),
                                      page |-> page, limit |-> limit,
                                      found |-> Matching(q.body)]]]
    /\ UNCHANGED <<users, stories, assets, nextId, now, creator, server>>

\* Story.countDocuments(query), then the 200
GetStoriesCount(r) ==
    /\ reqs[r].pc = "listCount"
    /\ LET q == reqs[r]
           total == Cardinality(Matching(q.body))
       IN  reqs' = [reqs EXCEPT ![r] =
               [Respond(@, 200, "")
                  EXCEPT !.data = [stories |-> q.doc.stories, page |-> q.doc.page,
                                   pages |-> Ceil(total, q.doc.limit), total |-> total],
                         !.doc = [query |-> q.body, found |-> q.doc.found,
                                  counted |-> Matching(q.body)]]]
    /\ UNCHANGED <<users, stories, assets, nextId, now, creator, server>>

(***************************************************************************)
(* getUserStories.  The slot's id is the userId of the path.               *)
(***************************************************************************)
\* The stories Story.find({ author: userId }) selects.
StoriesOf(userId) == {i \in DOMAIN stories : stories[i].author = userId}

EmptyResult == [stories |-> <<>>, page |-> 1, pages |-> 0, total |-> 0]

UserStoriesFindAnyone(r) ==
    /\ reqs[r].pc = "handler" /\ reqs[r].h = "getUserStories"
    /\ LET q == reqs[r]
           page == OrDefault(ParseInt(q.body, "page"), 1)
           limit == OrDefault(ParseInt(q.body, "limit"), 10)
           startIndex == (page - 1) * limit
       IN  IF SkipRefused(startIndex)
           THEN reqs' = [reqs EXCEPT ![r] = Respond(@, 400, "Skip value must be non-negative")]
           ELSE \E order \in SortedNewestFirst(StoriesOf(q.id)) :
                   reqs' = [reqs EXCEPT ![r] =
                       [@ EXCEPT !.pc = "userCount",
                                 !.doc = [stories |-> SkipLimit(order, startIndex, limit),
                                          page |-> page, limit |-> limit]]]
    /\ UNCHANGED <<users, stories, assets, nextId, now, creator, server>>

\* The ownership check, then Story.find({ author }).sort().skip().limit()
UserStoriesFind(r) ==
    /\ reqs[r].pc = "handler" /\ reqs[r].h = "getUserStories"
    /\ LET q == reqs[r]
           page == OrDefault(ParseInt(q.body, "page"), 1)
           limit == OrDefault(ParseInt(q.body, "limit"), 10)
           startIndex == (page - 1) * limit
       IN  IF q.id # q.user
           THEN reqs' = [reqs EXCEPT ![r] = Respond(@, 401, "Not authorized to view these stories")]
           ELSE IF SkipRefused(startIndex)
           THEN reqs' = [reqs EXCEPT ![r] = Respond(@, 400, "Skip value must be non-negative")]
           ELSE \E order \in SortedNewestFirst(StoriesOf(q.id)) :
                   reqs' = [reqs EXCEPT ![r] =
                       [@ EXCEPT !.pc = "userCount",
                                 !.doc = [stories |-> SkipLimit(order, startIndex, limit),
                                          page |-> page, limit |-> limit]]]
    /\ UNCHANGED <<users, stories, assets, nextId, now, creator, server>>

\* Story.countDocuments({ author }), then one of the two 200s
UserStoriesCount(r) ==
    /\ reqs[r].pc = "userCount"
    /\ LET q == reqs[r]
           total == Cardinality(StoriesOf(q.id))
       IN  reqs' = [reqs EXCEPT ![r] =
               IF total = 0
               THEN [Respond(@, 200, "No stories have been written yet") EXCEPT !.data = EmptyResult]
               ELSE [Respond(@, 200, "")
                       EXCEPT !.data = [stories |-> q.doc.stories, page |-> q.doc.page,
                                        pages |-> Ceil(total, q.doc.limit), total |-> total]]]
    /\ UNCHANGED <<users, stories, assets, nextId, now, creator, server>>

(***************************************************************************)
(* generateAIStory.  The slot's apiKey says whether DEEPSEEK_API_KEY is    *)
(* set in the environment the request reads; calls is the list of the      *)
(* upstream requests it has issued; data is the data of its response.      *)
(***************************************************************************)
\* What an upstream call comes back with: the fetch or the parse throws, the
\* parsed reply has no first choice, or it has one with some content.
Threw == [kind |-> "throws"]
NoChoices == [kind |-> "noChoices"]
Completion(content) == [kind |-> "ok", content |-> content]

\* !data.choices || !data.choices[0], or an exception before it
Failed(reply) == reply.kind # "ok"

\* content.trim().toLowerCase() of the genre reply, for the replies used
NormaliseGenre(raw) ==
    CASE raw = "Thriller" -> "thriller"
      [] raw = " fantasy " -> "fantasy"
      [] OTHER -> raw

GenerateCheckKeyFirst(r) ==
    /\ reqs[r].pc = "handler" /\ reqs[r].h = "generateAIStory"
    /\ reqs' = [reqs EXCEPT ![r] =
            IF ~reqs[r].apiKey
            THEN Respond(@, 500, "DeepSeek API key not configured")
            ELSE IF Missing(reqs[r].body, "prompt")
            THEN Respond(@, 400, "Please provide a prompt for the story")
            ELSE [@ EXCEPT !.pc = "genNarrative", !.calls = <<"narrative">>]]
    /\ UNCHANGED <<users, stories, assets, nextId, now, creator, server>>

\* The prompt check, the key check, then the first fetch goes out.
GenerateCheck(r) ==
    /\ reqs[r].pc = "handler" /\ reqs[r].h = "generateAIStory"
    /\ reqs' = [reqs EXCEPT ![r] =
            IF Missing(reqs[r].body, "prompt")
            THEN Respond(@, 400, "Please provide a prompt for the story")
            ELSE IF ~reqs[r].apiKey
            THEN Respond(@, 500, "DeepSeek API key not configured")
            ELSE [@ EXCEPT !.pc = "genNarrative", !.calls = <<"narrative">>]]
    /\ UNCHANGED <<users, stories, assets, nextId, now, creator, server>>

\* The narrative reply arrives; when it is well-formed the title fetch goes out.
GenerateNarrative(r, reply) ==
    /\ reqs[r].pc = "genNarrative"
    /\ reqs' = [reqs EXCEPT ![r] =
            IF Failed(reply)
            THEN Respond(@, 500, "An error occurred during story generation")
            ELSE [@ EXCEPT !.pc = "genTitle", !.doc = [content |-> Trim(reply.content)],
                           !.calls = Append(@, "title")]]
    /\ UNCHANGED <<users, stories, assets, nextId, now, creator, server>>

GenerateTitleKeepsNarrative(r, reply) ==
    /\ reqs[r].pc = "genTitle"
    /\ reqs' = [reqs EXCEPT ![r] =
            IF Failed(reply)
            THEN [Respond(@, 500, "An error occurred during story generation")
                    EXCEPT !.data = [content |-> reqs[r].doc.content]]
            ELSE [@ EXCEPT !.pc = "genGenre",
                           !.doc = [content |-> reqs[r].doc.content, title |-> Trim(reply.content)],
                           !.calls = Append(@, "genre")]]
    /\ UNCHANGED <<users, stories, assets, nextId, now, creator, server>>

\* The title reply arrives; when it is well-formed the genre fetch goes out.
GenerateTitle(r, reply) ==
    /\ reqs[r].pc = "genTitle"
    /\ reqs' = [reqs EXCEPT ![r] =
            IF Failed(reply)
            THEN Respond(@, 500, "An error occurred during story generation")
            ELSE [@ EXCEPT !.pc = "genGenre",
                           !.doc = [content |-> reqs[r].doc.content, title |-> Trim(reply.content)],
                           !.calls = Append(@, "genre")]]
    /\ UNCHANGED <<users, stories, assets, nextId, now, creator, server>>

\* The genre reply arrives; when it is well-formed the handler answers 200
\* with the three results.
GenerateGenre(r, reply) ==
    /\ reqs[r].pc = "genGenre"
    /\ reqs' = [reqs EXCEPT ![r] =
            IF Failed(reply)
            THEN Respond(@, 500, "An error occurred during story generation")
            ELSE [Respond(@, 200, "")
                    EXCEPT !.data = [title |-> reqs[r].doc.title, content |-> reqs[r].doc.content,
                                     genre |-> NormaliseGenre(reply.content),
                                     isAIGenerated |-> TRUE]]]
    /\ UNCHANGED <<users, stories, assets, nextId, now, creator, server>>

(***************************************************************************)
(* A request that has passed its chain: protect has put the token's owner  *)
(* in req.user, and the handler body is about to start.                    *)
(***************************************************************************)
Begin(r, h, u, id, body) ==
    /\ Free(r)
    /\ reqs' = [reqs EXCEPT ![r] =
            [IdleReq EXCEPT !.pc = "handler", !.h = h, !.user = u, !.token = u,
                            !.id = id, !.body = body]]
    /\ UNCHANGED <<users, stories, assets, nextId, now, creator, server>>

\* The same for POST /api/stories, whose chain has also run the upload.
BeginCreate(r, u, body, file) ==
    /\ Free(r)
    /\ reqs' = [reqs EXCEPT ![r] =
            [IdleReq EXCEPT !.pc = "handler", !.h = "createStory", !.user = u, !.token = u,
                            !.body = body, !.file = file, !.uploadRan = TRUE]]
    /\ UNCHANGED <<users, stories, assets, nextId, now, creator, server>>

\* The same for POST /api/stories/generate, in an environment where the
\* upstream key is set or not.
BeginGenerate(r, u, body, key) ==
    /\ Free(r)
    /\ reqs' = [reqs EXCEPT ![r] =
            [IdleReq EXCEPT !.pc = "handler", !.h = "generateAIStory", !.user = u, !.token = u,
                            !.body = body, !.apiKey = key]]
    /\ UNCHANGED <<users, stories, assets, nextId, now, creator, server>>

\* The caller of a finished generation posts what it got to POST /api/stories.
BeginCreateGenerated(r) ==
    /\ reqs[r].pc = "done" /\ reqs[r].h = "generateAIStory" /\ reqs[r].status = 200
    /\ reqs' = [reqs EXCEPT ![r] =
            [IdleReq EXCEPT !.pc = "handler", !.h = "createStory", !.user = reqs[r].user,
                            !.token = reqs[r].user, !.body = reqs[r].data, !.uploadRan = TRUE]]
    /\ UNCHANGED <<users, stories, assets, nextId, now, creator, server>>

(***************************************************************************)
(* Usernames and emails are sequences of characters: the handlers trim     *)
(* them, lowercase them and test them against regular expressions.         *)
(***************************************************************************)
LowerOf(c) == CASE c = "A" -> "a" [] c = "B" -> "b" [] c = "X" -> "x" [] OTHER -> c

\* String.prototype.toLowerCase
ToLowerCase(s) == [i \in 1..Len(s) |-> LowerOf(s[i])]

RECURSIVE TrimLeft(_)
TrimLeft(s) == IF s # <<>> /\ Head(s) = " " THEN TrimLeft(Tail(s)) ELSE s
RECURSIVE TrimRight(_)
TrimRight(s) ==
    IF s # <<>> /\ s[Len(s)] = " " THEN TrimRight(SubSeq(s, 1, Len(s) - 1)) ELSE s

\* String.prototype.trim, on a sequence of characters
TrimChars(s) == TrimRight(TrimLeft(s))

USERNAME_MAX_LENGTH == 20
PASSWORD_MAX_LENGTH == 128
UsernameMinLength == 3
PasswordMinLength == 6

UsernameChars == {"a", "b", "c", "x", "y", "z", "A", "B", "X", "0", "1", "_", "-"}

\* validateUsername: "" when the username passes
validateUsername(body) ==
    IF ~Has(body, "username") \/ body.username = <<>> THEN "Username is required"
    ELSE LET username == TrimChars(body.username) IN
         CASE Len(username) < UsernameMinLength -> "Username must be at least 3 characters long"
           [] Len(username) > USERNAME_MAX_LENGTH -> "Username must be less than 20 characters"
           [] \E i \in 1..Len(username) : username[i] \notin UsernameChars
                -> "Username can only contain letters, numbers, underscores, and hyphens"
           [] OTHER -> ""

\* /^\S+@\S+\.\S+$/
IsEmailShaped(s) ==
    /\ \A i \in 1..Len(s) : s[i] # " "
    /\ \E i, j \in 1..Len(s) : /\ s[i] = "@" /\ s[j] = "."
                               /\ 1 < i /\ i + 1 < j /\ j < Len(s)

\* validateEmail: "" when the email passes
validateEmail(body) ==
    IF ~Has(body, "email") \/ body.email = <<>> THEN "Email is required"
    ELSE IF ~IsEmailShaped(ToLowerCase(TrimChars(body.email)))
    THEN "Please enter a valid email address"
    ELSE ""

\* validatePassword: "" when the password passes.  A password is known by
\* its text and its length.
validatePassword(body, f) ==
    IF ~Has(body, f) \/ body[f].len = 0 THEN "Password is required"
    ELSE CASE body[f].len < PasswordMinLength -> "Password must be at least 6 characters long"
           [] body[f].len > PASSWORD_MAX_LENGTH -> "Password must be less than 128 characters"
           [] OTHER -> ""

(***************************************************************************)
(* The User schema: the email is stored lowercased, the password hashed,   *)
(* and a unique index each covers the username and the email.              *)
(***************************************************************************)
\* The hash the pre-save hook stores in place of a password.
Hash(p) == <<"bcrypt", p.text>>

\* user.matchPassword(entered)
MatchPassword(user, entered) == user.password = Hash(entered)

NoIndex(id, username, email) == TRUE

\* Whether the unique indexes admit `username` and `email` for document `id`.
UniqueIndexAdmits(id, username, email) ==
    \A o \in DOMAIN users \ {id} :
        users[o].username # username /\ users[o].email # email

\* A user as User.create leaves it.
NewUser(username, email, password) ==
    [username |-> username, email |-> ToLowerCase(email), password |-> Hash(password),
     profilePicture |-> 0, stories |-> <<>>,
     resetPasswordToken |-> 0, resetPasswordExpire |-> 0]

(***************************************************************************)
(* registerUser                                                            *)
(***************************************************************************)
MaxUsers == 2

\* The documents User.findOne({ $or: [{ email }, { username }] }) can return.
RegisterMatches(body) ==
    {o \in DOMAIN users : \/ users[o].email = ToLowerCase(body.email)
                          \/ users[o].username = TrimChars(body.username)}

\* The three validations, then the lookup; Mongo returns one of the
\* matching documents.
RegisterFind(r) ==
    /\ reqs[r].pc = "handler" /\ reqs[r].h = "registerUser"
    /\ LET q == reqs[r]
           bad == IF validateUsername(q.body) # "" THEN validateUsername(q.body)
                  ELSE IF validateEmail(q.body) # "" THEN validateEmail(q.body)
                  ELSE validatePassword(q.body, "password")
       IN  IF bad # ""
           THEN reqs' = [reqs EXCEPT ![r] = Respond(@, 400, bad)]
           ELSE IF RegisterMatches(q.body) = {}
           THEN reqs' = [reqs EXCEPT ![r].pc = "registerCreate"]
           ELSE \E o \in RegisterMatches(q.body) :
                    reqs' = [reqs EXCEPT ![r] =
                        IF users[o].email = ToLowerCase(q.body.email)
                        THEN Respond(@, 400, "Email is already registered")
                        ELSE Respond(@, 400, "Username is already taken")]
    /\ UNCHANGED <<users, stories, assets, nextId, now, creator, server>>

\* User.create({ username: username.trim(), email: email.toLowerCase(), password })
RegisterCreate(r) ==
    /\ reqs[r].pc = "registerCreate"
    /\ LET q == reqs[r]
           doc == NewUser(TrimChars(q.body.username), ToLowerCase(q.body.email), q.body.password)
       IN  IF ~UniqueIndexAdmits(0, doc.username, doc.email)
           THEN /\ reqs' = [reqs EXCEPT ![r] = Respond(@, 500, "Server error during registration")]
                /\ UNCHANGED <<users, nextId>>
           ELSE /\ nextId <= MaxUsers
                /\ users' = (nextId :> doc) @@ users
                /\ nextId' = nextId + 1
                /\ reqs' = [reqs EXCEPT ![r] = [Respond(@, 201, "") EXCEPT !.id = nextId]]
    /\ UNCHANGED <<stories, assets, now, creator, server>>

(***************************************************************************)
(* loginUser                                                               *)
(***************************************************************************)
LoginResponseNamingTheCause(body) ==
    IF validateEmail(body) # "" THEN <<400, validateEmail(body)>>
    ELSE IF ~Has(body, "password") \/ body.password.len = 0 THEN <<400, "Password is required">>
    ELSE LET found == {o \in DOMAIN users : users[o].email = ToLowerCase(body.email)}
         IN  IF found = {} THEN <<404, "No user found with this email">>
             ELSE IF \E o \in found : MatchPassword(users[o], body.password)
             THEN <<200, "">>
             ELSE <<401, "Invalid email or password">>

\* User.findOne({ email: email.toLowerCase() }): the id found, 0 for null
\* (and for a body the handler answers before it gets to the lookup).
LoginFound(body) ==
    LET found == IF validateEmail(body) = "" /\ Has(body, "password") /\ body.password.len > 0
                 THEN {o \in DOMAIN users : users[o].email = ToLowerCase(body.email)}
                 ELSE {}
    IN  IF found = {} THEN 0 ELSE CHOOSE o \in found : TRUE

\* The status and message loginUser answers with.
LoginResponse(body) ==
    IF validateEmail(body) # "" THEN <<400, validateEmail(body)>>
    ELSE IF ~Has(body, "password") \/ body.password.len = 0 THEN <<400, "Password is required">>
    ELSE LET found == {o \in DOMAIN users : users[o].email = ToLowerCase(body.email)}
         IN  IF \E o \in found : MatchPassword(users[o], body.password)
             THEN <<200, "">>
             ELSE <<401, "Invalid email or password">>

LoginUser(r) ==
    /\ reqs[r].pc = "handler" /\ reqs[r].h = "loginUser"
    /\ reqs' = [reqs EXCEPT ![r] =
            [Respond(@, LoginResponse(reqs[r].body)[1], LoginResponse(reqs[r].body)[2])
                EXCEPT !.id = LoginFound(reqs[r].body)]]
    /\ UNCHANGED <<users, stories, assets, nextId, now, creator, server>>

(***************************************************************************)
(* updateUserProfile                                                       *)
(***************************************************************************)
\* User.findById(req.user._id)
UpdateProfileLoad(r) ==
    /\ reqs[r].pc = "handler" /\ reqs[r].h = "updateUserProfile"
    /\ reqs' = [reqs EXCEPT ![r] =
            IF reqs[r].user \notin DOMAIN users
            THEN Respond(@, 404, "User not found")
            ELSE [@ EXCEPT !.pc = "profileName", !.doc = users[reqs[r].user]]]
    /\ UNCHANGED <<users, stories, assets, nextId, now, creator, server>>

\* The username, when the body has one: validated, and looked up when it
\* differs from the user's own.
UpdateProfileName(r) ==
    /\ reqs[r].pc = "profileName"
    /\ LET q == reqs[r] IN
        reqs' = [reqs EXCEPT ![r] =
            IF ~Has(q.body, "username") \/ q.body.username = <<>>
            THEN [@ EXCEPT !.pc = "profileEmail"]
            ELSE IF validateUsername(q.body) # ""
            THEN Respond(@, 400, validateUsername(q.body))
            ELSE IF /\ q.body.username # q.doc.username
                    /\ \E o \in DOMAIN users : users[o].username = TrimChars(q.body.username)
            THEN Respond(@, 400, "Username is already taken")
            ELSE [@ EXCEPT !.pc = "profileEmail"]]
    /\ UNCHANGED <<users, stories, assets, nextId, now, creator, server>>

\* The email, when the body has one: validated, and looked up when its
\* lowercase differs from the user's own.
UpdateProfileEmail(r) ==
    /\ reqs[r].pc = "profileEmail"
    /\ LET q == reqs[r] IN
        reqs' = [reqs EXCEPT ![r] =
            IF ~Has(q.body, "email") \/ q.body.email = <<>>
            THEN [@ EXCEPT !.pc = "profileSave"]
            ELSE IF validateEmail(q.body) # ""
            THEN Respond(@, 400, validateEmail(q.body))
            ELSE IF /\ ToLowerCase(q.body.email) # q.doc.email
                    /\ \E o \in DOMAIN users : users[o].email = ToLowerCase(q.body.email)
            THEN Respond(@, 400, "Email is already registered")
            ELSE [@ EXCEPT !.pc = "profileSave"]]
    /\ UNCHANGED <<users, stories, assets, nextId, now, creator, server>>

\* The password change, when the body asks for one: "" when it may go ahead.
PasswordChangeRejection(q) ==
    IF ~Has(q.body, "currentPassword") \/ q.body.currentPassword.len = 0
    THEN <<400, "Current password is required to change password">>
    ELSE IF validatePassword(q.body, "newPassword") # ""
    THEN <<400, validatePassword(q.body, "newPassword")>>
    ELSE IF ~MatchPassword(q.doc, q.body.currentPassword)
    THEN <<401, "Current password is incorrect">>
    ELSE <<0, "">>

\* The fields the handler assigns on its copy before user.save().
ProfileChanges(q) ==
    LET wantsPassword == Has(q.body, "newPassword") /\ q.body.newPassword.len # 0
        a == IF wantsPassword THEN [q.doc EXCEPT !.password = Hash(q.body.newPassword)] ELSE q.doc
        b == IF Has(q.body, "username") /\ q.body.username # <<>>
             THEN [a EXCEPT !.username = TrimChars(q.body.username)] ELSE a
    IN  IF Has(q.body, "email") /\ q.body.email # <<>>
        THEN [b EXCEPT !.email = ToLowerCase(q.body.email)] ELSE b

\* What user.save() leaves stored: the paths the handler changed on its
\* copy are set, the others stay as they are stored.
SavedProfile(stored, read, new) ==
    [f \in DOMAIN stored |-> IF new[f] # read[f] THEN new[f] ELSE stored[f]]

\* The password checks, the assignments and user.save(): the save fails
\* on a duplicate key or when the document is gone.
UpdateProfileSave(r) ==
    /\ reqs[r].pc = "profileSave"
    /\ LET q == reqs[r]
           wantsPassword == Has(q.body, "newPassword") /\ q.body.newPassword.len # 0
           no == IF wantsPassword THEN PasswordChangeRejection(q) ELSE <<0, "">>
           new == ProfileChanges(q)
       IN  IF no[1] # 0
           THEN /\ reqs' = [reqs EXCEPT ![r] = Respond(@, no[1], no[2])]
                /\ UNCHANGED users
           ELSE IF q.user \notin DOMAIN users
           THEN /\ reqs' = [reqs EXCEPT ![r] = Respond(@, 500, "Server error while updating profile")]
                /\ UNCHANGED users
           ELSE LET saved == SavedProfile(users[q.user], q.doc, new) IN
                IF ~UniqueIndexAdmits(q.user, saved.username, saved.email)
                THEN /\ reqs' = [reqs EXCEPT ![r] =
                            Respond(@, 500, "Server error while updating profile")]
                     /\ UNCHANGED users
                ELSE /\ users' = [users EXCEPT ![q.user] = saved]
                     /\ reqs' = [reqs EXCEPT ![r] = Respond(@, 200, "")]
    /\ UNCHANGED <<stories, assets, nextId, now, creator, server>>

(***************************************************************************)
(* forgotPassword and resetPassword                                        *)
(***************************************************************************)
ResetTokenTTL == 3600000
MaxTokens == 2

\* User.findOne({ email }), then the token and its expiry on the copy
ForgotPasswordFind(r) ==
    /\ reqs[r].pc = "handler" /\ reqs[r].h = "forgotPassword"
    /\ LET q == reqs[r] IN
        IF validateEmail(q.body) # ""
        THEN /\ reqs' = [reqs EXCEPT ![r] = Respond(@, 400, validateEmail(q.body))]
             /\ UNCHANGED nextId
        ELSE LET found == {o \in DOMAIN users : users[o].email = ToLowerCase(q.body.email)} IN
             IF found = {}
             THEN /\ reqs' = [reqs EXCEPT ![r] = Respond(@, 404, "No user found with this email")]
                  /\ UNCHANGED nextId
             ELSE /\ nextId < 100 + MaxTokens
                  /\ \E o \in found :
                        reqs' = [reqs EXCEPT ![r] =
                            [@ EXCEPT !.pc = "forgotSave", !.id = o,
                                      !.doc = [resetPasswordToken |-> nextId,
                                               resetPasswordExpire |-> now + ResetTokenTTL]]]
                  /\ nextId' = nextId + 1
    /\ UNCHANGED <<users, stories, assets, now, creator, server>>

\* A variant that leaves the expiry of a user who already holds a token as
\* it is.
ForgotPasswordSaveKeepsExpiry(r) ==
    /\ reqs[r].pc = "forgotSave"
    /\ LET q == reqs[r] IN
        IF q.id \notin DOMAIN users
        THEN /\ reqs' = [reqs EXCEPT ![r] =
                    Respond(@, 500, "Server error while processing password reset request")]
             /\ UNCHANGED users
        ELSE /\ users' = [users EXCEPT ![q.id].resetPasswordToken = q.doc.resetPasswordToken,
                                       ![q.id].resetPasswordExpire =
                                            IF @ = 0 THEN q.doc.resetPasswordExpire ELSE @]
             /\ reqs' = [reqs EXCEPT ![r] =
                    [Respond(@, 200, "Password reset link sent to email")
                        EXCEPT !.token = q.doc.resetPasswordToken]]
    /\ UNCHANGED <<stories, assets, nextId, now, creator, server>>

\* user.save(), then the 200 that carries the token
ForgotPasswordSave(r) ==
    /\ reqs[r].pc = "forgotSave"
    /\ LET q == reqs[r] IN
        IF q.id \notin DOMAIN users
        THEN /\ reqs' = [reqs EXCEPT ![r] =
                    Respond(@, 500, "Server error while processing password reset request")]
             /\ UNCHANGED users
        ELSE /\ users' = [users EXCEPT ![q.id].resetPasswordToken = q.doc.resetPasswordToken,
                                       ![q.id].resetPasswordExpire = q.doc.resetPasswordExpire]
             /\ reqs' = [reqs EXCEPT ![r] =
                    [Respond(@, 200, "Password reset link sent to email")
                        EXCEPT !.token = q.doc.resetPasswordToken]]
    /\ UNCHANGED <<stories, assets, nextId, now, creator, server>>

\* A token as the JSON body carries it: a string (0 stands for ""), or an
\* object, which the query takes for an operator.
StrToken(t) == [t |-> "string", v |-> t]
NeNull == [t |-> "object", v |-> 0]

\* !token
TokenFalsy(body) == ~Has(body, "token") \/ (body.token.t = "string" /\ body.token.v = 0)

\* Whether a stored resetPasswordToken satisfies the query's condition on
\* it: a string matches the equal string, { $ne: null } matches any token
\* that is set.
TokenMatches(stored, cond) ==
    IF cond.t = "string" THEN stored # 0 /\ stored = cond.v ELSE stored # 0

\* The documents User.findOne({ resetPasswordToken: token,
\* resetPasswordExpire: { $gt: Date.now() } }) can return.
ResetMatches(token) ==
    {o \in DOMAIN users : /\ TokenMatches(users[o].resetPasswordToken, token)
                          /\ users[o].resetPasswordExpire > now}

\* The string req.body.token carries, 0 when it carries none; the slot
\* keeps it as the token of the request.
SubmittedToken(body) ==
    IF Has(body, "token") /\ body.token.t = "string" THEN body.token.v ELSE 0

ResetPasswordFind(r) ==
    /\ reqs[r].pc = "handler" /\ reqs[r].h = "resetPassword"
    /\ LET q == [reqs[r] EXCEPT !.token = SubmittedToken(reqs[r].body)] IN
        IF TokenFalsy(q.body)
        THEN reqs' = [reqs EXCEPT ![r] = Respond(q, 400, "Reset token is required")]
        ELSE IF validatePassword(q.body, "newPassword") # ""
        THEN reqs' = [reqs EXCEPT ![r] = Respond(q, 400, validatePassword(q.body, "newPassword"))]
        ELSE IF ResetMatches(q.body.token) = {}
        THEN reqs' = [reqs EXCEPT ![r] = Respond(q, 400, "Invalid or expired reset token")]
        ELSE \E o \in ResetMatches(q.body.token) :
                reqs' = [reqs EXCEPT ![r] = [q EXCEPT !.pc = "resetSave", !.id = o]]
    /\ UNCHANGED <<users, stories, assets, nextId, now, creator, server>>

ResetPasswordSaveKeepsToken(r) ==
    /\ reqs[r].pc = "resetSave"
    /\ LET q == reqs[r] IN
        IF q.id \notin DOMAIN users
        THEN /\ reqs' = [reqs EXCEPT ![r] = Respond(@, 500, "Server error while resetting password")]
             /\ UNCHANGED users
        ELSE /\ users' = [users EXCEPT ![q.id].password = Hash(q.body.newPassword)]
             /\ reqs' = [reqs EXCEPT ![r] = Respond(@, 200, "Password reset successful")]
    /\ UNCHANGED <<stories, assets, nextId, now, creator, server>>

\* user.password = newPassword; the token and its expiry unset; user.save()
ResetPasswordSave(r) ==
    /\ reqs[r].pc = "resetSave"
    /\ LET q == reqs[r] IN
        IF q.id \notin DOMAIN users
        THEN /\ reqs' = [reqs EXCEPT ![r] = Respond(@, 500, "Server error while resetting password")]
             /\ UNCHANGED users
        ELSE /\ users' = [users EXCEPT ![q.id].password = Hash(q.body.newPassword),
                                       ![q.id].resetPasswordToken = 0,
                                       ![q.id].resetPasswordExpire = 0]
             /\ reqs' = [reqs EXCEPT ![r] = Respond(@, 200, "Password reset successful")]
    /\ UNCHANGED <<stories, assets, nextId, now, creator, server>>

\* Time passes.
MaxTicks == 3
TickLength == ResetTokenTTL \div 2

Tick ==
    /\ now < MaxTicks * TickLength
    /\ now' = now + TickLength
    /\ UNCHANGED <<users, stories, reqs, assets, nextId, creator, server>>

(***************************************************************************)
(* The values the specifications below drive the handlers with.            *)
(***************************************************************************)
Alice == <<"a", "b", "c">>
AlicePadded == <<" ", "a", "b", "c", " ">>
Bob == <<"x", "y", "z">>
TooShort == <<"a", "b">>

EmailA == <<"a", "@", "b", ".", "c">>
EmailACaps == <<"A", "@", "b", ".", "c">>
EmailB == <<"x", "@", "b", ".", "c">>
EmailC == <<"c", "@", "b", ".", "c">>
NotAnEmail == <<"a", "b">>

Pw1 == [text |-> "secret1", len |-> 7]
Pw2 == [text |-> "hunter22", len |-> 8]
PwShort == [text |-> "abc", len |-> 3]
PwEmpty == [text |-> "", len |-> 0]

\* Two users as their registrations left them.
SeedUsers == (1 :> NewUser(Alice, EmailA, Pw1)) @@ (2 :> NewUser(Bob, EmailB, Pw2))

T5 == <<W(5)>>
T7 == <<W(3), S(1), W(3)>>
C100 == <<W(100)>>
C121 == <<W(60), S(1), W(60)>>
C99 == <<W(99)>>
CPadded == <<S(2), W(97), S(1), W(3), S(4)>>

\* A story of user 1, as createStory left it.
SeedStory == NewStory([title |-> T5, content |-> C100, genre |-> "fantasy"], 1, 0)

NoDocs == [i \in {} |-> 0]

(***************************************************************************)
(* SpecGate: the HTTP edge.  Requests of every method and path, with and   *)
(* without a valid token, walk their chains; the like handler is followed  *)
(* to its end, the other handlers answer as soon as they are entered.      *)
(***************************************************************************)
FollowedByGate == {"toggleLikeStory"}

HandlerBody(r) ==
    /\ reqs[r].pc = "handler"
    /\ reqs[r].h \notin FollowedByGate
    /\ reqs' = [reqs EXCEPT ![r] = Respond(@, 200, "")]
    /\ UNCHANGED <<users, stories, assets, nextId, now, creator, server>>

InitGate ==
    /\ server = Serving
    /\ now = 0
    /\ users = [SeedUsers EXCEPT ![1].stories = <<10>>]
    /\ stories = (10 :> SeedStory)
    /\ creator = (10 :> 1)
    /\ reqs = [r \in 1..GateSlots |-> IdleReq]
    /\ assets = {}
    /\ nextId = 11

NextGate ==
    \E r \in 1..GateSlots :
        \/ \E http \in HttpRequests, token \in Tokens, file \in Files : Arrive(r, http, token, file)
        \/ Protect(r)
        \/ Upload(r)
        \/ SkipErrorHandler(r)
        \/ EnterHandler(r)
        \/ HandlerBody(r)
        \/ ToggleLikeFind(r)
        \/ ToggleLikeSave(r)

SpecGate == InitGate /\ [][NextGate]_vars

(***************************************************************************)
(* SpecAuthz, SpecStory: the story handlers, driven by two registered      *)
(* users.  SpecAuthz follows create, update and delete of stories without  *)
(* an image, with few bodies; SpecStory follows every story handler, with  *)
(* all the bodies.                                                         *)
(***************************************************************************)
StorySlots == 1
MaxStories == 1
MaxAssets == 1

StoryUsers == {1, 2}
StoryIds == 10..(9 + MaxStories)

CreateBodies ==
    { [title |-> T5, content |-> C100, genre |-> "fantasy"],
      [title |-> T5, content |-> CPadded, genre |-> "horror", isAIGenerated |-> TRUE],
      [title |-> T5, content |-> C99, genre |-> "fantasy"],
      [title |-> T5, content |-> C100, genre |-> "thriller"],
      [content |-> C100, genre |-> "fantasy"] }

UpdateBodies ==
    { [content |-> C121],
      [content |-> C99],
      [content |-> C100],
      [title |-> T7],
      [wordCount |-> 7],
      [content |-> C121, wordCount |-> 7],
      [author |-> 2],
      [comments |-> <<>>] }

CommentBodies == { [content |-> T5], NoBody }

InitStory ==
    /\ server = Serving
    /\ users = SeedUsers
    /\ stories = NoDocs
    /\ creator = NoDocs
    /\ reqs = [r \in 1..StorySlots |-> IdleReq]
    /\ assets = {}
    /\ nextId = 10
    /\ now = 0

AuthzCreateBodies ==
    { [title |-> T5, content |-> C100, genre |-> "fantasy"],
      [title |-> T5, content |-> C99, genre |-> "fantasy"] }
AuthzUpdateBodies == { [title |-> T7], [author |-> 2] }

NextAuthz ==
    \E r \in 1..StorySlots :
        \/ \E u \in StoryUsers, b \in AuthzCreateBodies :
                nextId < 10 + MaxStories /\ BeginCreate(r, u, b, "none")
        \/ \E u \in StoryUsers, i \in StoryIds, b \in AuthzUpdateBodies :
                Begin(r, "updateStory", u, i, b)
        \/ \E u \in StoryUsers, i \in StoryIds : Begin(r, "deleteStory", u, i, NoBody)
        \/ CreateStoryInsert(r) \/ CreateStoryPush(r) \/ CreateStoryRead(r)
        \/ UpdateStoryFind(r) \/ UpdateStoryWrite(r)
        \/ DeleteStoryFind(r) \/ DeleteStoryPull(r) \/ DeleteStoryRemove(r)

SpecAuthz == InitStory /\ [][NextAuthz]_vars

NextStory ==
    \E r \in 1..StorySlots :
        \/ \E u \in StoryUsers, b \in CreateBodies, file \in {"none", "ok"} :
                /\ nextId < 10 + MaxStories
                /\ file = "ok" => Cardinality(assets) < MaxAssets
                /\ BeginCreate(r, u, b, file)
        \/ \E u \in StoryUsers, i \in StoryIds, b \in UpdateBodies : Begin(r, "updateStory", u, i, b)
        \/ \E u \in StoryUsers, i \in StoryIds : Begin(r, "deleteStory", u, i, NoBody)
        \/ \E u \in StoryUsers, i \in StoryIds : Begin(r, "toggleLikeStory", u, i, NoBody)
        \/ \E u \in StoryUsers, i \in StoryIds, b \in CommentBodies : Begin(r, "addComment", u, i, b)
        \/ CreateStoryUpload(r) \/ CreateStoryInsert(r) \/ CreateStoryPush(r) \/ CreateStoryRead(r)
        \/ UpdateStoryFind(r) \/ UpdateStoryWrite(r)
        \/ DeleteStoryFind(r) \/ DeleteStoryPull(r) \/ DeleteStoryRemove(r)
        \/ ToggleLikeFind(r) \/ ToggleLikeSave(r)
        \/ AddCommentFind(r) \/ AddCommentSave(r) \/ AddCommentRead(r)

SpecStory == InitStory /\ [][NextStory]_vars

(***************************************************************************)
(* SpecLikes: like requests of two users on one story, in flight together. *)
(***************************************************************************)
LikeSlots == 2

InitLikes ==
    /\ server = Serving
    /\ now = 0
    /\ users = [SeedUsers EXCEPT ![1].stories = <<10>>]
    /\ stories = (10 :> SeedStory)
    /\ creator = (10 :> 1)
    /\ reqs = [r \in 1..LikeSlots |-> IdleReq]
    /\ assets = {}
    /\ nextId = 11

NextLikes ==
    \E r \in 1..LikeSlots :
        \/ \E u \in StoryUsers : Begin(r, "toggleLikeStory", u, 10, NoBody)
        \/ ToggleLikeFind(r)
        \/ ToggleLikeSave(r)

SpecLikes == InitLikes /\ [][NextLikes]_vars

(***************************************************************************)
(* SpecUser: registrations, logins and profile updates, in flight          *)
(* together, on a collection that starts empty.                            *)
(***************************************************************************)
UserSlots == 2

RegisterBodies ==
    { [username |-> Alice, email |-> EmailA, password |-> Pw1],
      [username |-> Bob, email |-> EmailB, password |-> Pw2],
      [username |-> Bob, email |-> EmailACaps, password |-> Pw1],
      [username |-> AlicePadded, email |-> EmailB, password |-> Pw1],
      [username |-> TooShort, email |-> EmailA, password |-> Pw1],
      [username |-> Alice, email |-> NotAnEmail, password |-> Pw1],
      [username |-> Alice, email |-> EmailA, password |-> PwShort] }

ProfileBodies ==
    { [username |-> Bob],
      [email |-> EmailACaps],
      [username |-> Alice, email |-> EmailB],
      [newPassword |-> Pw2, currentPassword |-> Pw1],
      [newPassword |-> Pw2] }

LoginBodies ==
    { [email |-> e, password |-> p] : e \in {EmailA, EmailACaps, EmailC}, p \in {Pw1, Pw2} }
    \cup { [email |-> NotAnEmail, password |-> Pw1], [email |-> EmailA, password |-> PwEmpty] }

InitUser ==
    /\ server = Serving
    /\ users = NoDocs
    /\ stories = NoDocs
    /\ creator = NoDocs
    /\ reqs = [r \in 1..UserSlots |-> IdleReq]
    /\ assets = {}
    /\ nextId = 1
    /\ now = 0

NextUser ==
    \E r \in 1..UserSlots :
        \/ \E b \in RegisterBodies : Begin(r, "registerUser", 0, 0, b)
        \/ \E u \in DOMAIN users, b \in ProfileBodies : Begin(r, "updateUserProfile", u, 0, b)
        \/ \E b \in LoginBodies : Begin(r, "loginUser", 0, 0, b)
        \/ RegisterFind(r) \/ RegisterCreate(r)
        \/ UpdateProfileLoad(r) \/ UpdateProfileName(r) \/ UpdateProfileEmail(r)
        \/ UpdateProfileSave(r)
        \/ LoginUser(r)

SpecUser == InitUser /\ [][NextUser]_vars

(***************************************************************************)
(* SpecReset: password resets of two registered users, while time passes.  *)
(***************************************************************************)
ResetSlots == 1

ForgotBodies == { [email |-> EmailA], [email |-> EmailB], [email |-> EmailC], [email |-> NotAnEmail] }

ResetBodies ==
    { [token |-> t, newPassword |-> Pw2] : t \in {StrToken(0), StrToken(100), StrToken(101), NeNull} }
    \cup { [newPassword |-> Pw2], [token |-> StrToken(100), newPassword |-> PwShort],
           [token |-> StrToken(100)] }

InitReset ==
    /\ server = Serving
    /\ users = SeedUsers
    /\ stories = NoDocs
    /\ creator = NoDocs
    /\ reqs = [r \in 1..ResetSlots |-> IdleReq]
    /\ assets = {}
    /\ nextId = 100
    /\ now = 0

NextReset ==
    \/ Tick
    \/ \E r \in 1..ResetSlots :
        \/ \E b \in ForgotBodies : Begin(r, "forgotPassword", 0, 0, b)
        \/ \E b \in ResetBodies : Begin(r, "resetPassword", 0, 0, b)
        \/ ForgotPasswordFind(r) \/ ForgotPasswordSave(r)
        \/ ResetPasswordFind(r) \/ ResetPasswordSave(r)

SpecReset == InitReset /\ [][NextReset]_vars

(***************************************************************************)
(* SpecGenerate: story generations of two registered users against an      *)
(* upstream that answers, answers without a completion or fails, each      *)
(* followed or not by the creation of the story generated.                 *)
(***************************************************************************)
GenSlots == 1

PromptBodies == { [prompt |-> T5], [prompt |-> <<>>], NoBody }

NarrativeReplies == { Threw, NoChoices, Completion(CPadded), Completion(C99) }
TitleReplies == { Threw, NoChoices, Completion(T5), Completion(<<S(1), W(5), S(1)>>) }
GenreReplies ==
    { Threw, NoChoices, Completion("fantasy"), Completion(" fantasy "),
      Completion("Thriller"), Completion("epic") }

InitGenerate ==
    /\ server = Serving
    /\ users = SeedUsers
    /\ stories = NoDocs
    /\ creator = NoDocs
    /\ reqs = [r \in 1..GenSlots |-> IdleReq]
    /\ assets = {}
    /\ nextId = 10
    /\ now = 0

NextGenerate ==
    \E r \in 1..GenSlots :
        \/ \E u \in StoryUsers, b \in PromptBodies, key \in BOOLEAN : BeginGenerate(r, u, b, key)
        \/ GenerateCheck(r)
        \/ \E reply \in NarrativeReplies : GenerateNarrative(r, reply)
        \/ \E reply \in TitleReplies : GenerateTitle(r, reply)
        \/ \E reply \in GenreReplies : GenerateGenre(r, reply)
        \/ nextId < 10 + MaxStories /\ BeginCreateGenerated(r)
        \/ CreateStoryInsert(r) \/ CreateStoryPush(r) \/ CreateStoryRead(r)

SpecGenerate == InitGenerate /\ [][NextGenerate]_vars

(***************************************************************************)
(* SpecList: listings of a collection of up to MaxListed stories of user   *)
(* 1, created one after another at instants that need not differ, while    *)
(* their author deletes some of them.                                      *)
(***************************************************************************)
ListSlots == 2
MaxListed == 2

ListQueries ==
    { q \in UNION { [fs -> {"0", "1", "2", "x", "fantasy"}] : fs \in SUBSET {"page", "limit", "genre"} } :
        /\ Has(q, "page") => q.page \in {"0", "2", "x"}
        /\ Has(q, "limit") => q.limit \in {"1", "2"}
        /\ Has(q, "genre") => q.genre = "fantasy" }

ListedGenres == {"fantasy", "horror"}

InitList ==
    /\ server = Serving
    /\ now \in 0..1
    /\ \E n \in 0..MaxListed :
        /\ nextId = 10 + n
        /\ users = [SeedUsers EXCEPT ![1].stories = [k \in 1..n |-> 9 + k]]
        /\ creator = [i \in 10..(9 + n) |-> 1]
        /\ \E at \in [10..(9 + n) -> 0..now], genre \in [10..(9 + n) -> ListedGenres] :
            /\ \A i, j \in 10..(9 + n) : i < j => at[i] <= at[j]
            /\ stories = [i \in 10..(9 + n) |->
                    [NewStory([title |-> T5, content |-> C100, genre |-> genre[i]], 1, 0)
                        EXCEPT !.createdAt = at[i]]]
    /\ reqs = [r \in 1..ListSlots |-> IdleReq]
    /\ assets = {}

NextList ==
    \E r \in 1..ListSlots :
        \/ \E q \in ListQueries : Begin(r, "getStories", 0, 0, q)
        \/ GetStoriesFind(r) \/ GetStoriesCount(r)
        \/ \E i \in 10..(9 + MaxListed) : Begin(r, "deleteStory", 1, i, NoBody)
        \/ DeleteStoryFind(r) \/ DeleteStoryPull(r) \/ DeleteStoryRemove(r)

SpecList == InitList /\ [][NextList]_vars

(***************************************************************************)
(* SpecPicture: user 1, with no picture, the default avatar or a picture   *)
(* of its own, replaces its picture and deletes its account, through the   *)
(* routes' chains, against an asset host whose calls may fail.  User 1 has *)
(* written story 10, which both users like and user 1 commented on.        *)
(***************************************************************************)
PictureSlots == 1
MaxPictures == 2

PictureRequests ==
    { [method |-> "POST", mount |-> "users", segs |-> <<"profile", "picture">>],
      [method |-> "DELETE", mount |-> "users", segs |-> <<"profile">>] }

PictureFiles == {"none", "ok", "otherImage", "bad"}

InitPicture ==
    /\ server = Serving
    /\ now = 0
    /\ \E picture \in {0, DefaultAvatar, 1} :
        /\ users = [SeedUsers EXCEPT ![1].profilePicture = picture, ![1].stories = <<10>>]
        /\ assets = IF picture = 1 THEN {1} ELSE {}
    /\ stories = (10 :> [SeedStory EXCEPT
                    !.likes = <<1, 2>>,
                    !.comments = <<[user |-> 1, content |-> <<W(4)>>, createdAt |-> 0]>>])
    /\ creator = (10 :> 1)
    /\ reqs = [r \in 1..PictureSlots |-> IdleReq]
    /\ nextId = 2

NextPicture ==
    \E r \in 1..PictureSlots :
        \/ \E http \in PictureRequests, token \in Tokens, file \in PictureFiles :
                /\ nextId <= 1 + MaxPictures
                /\ http.method = "DELETE" => file = "none"
                /\ Arrive(r, http, token, file)
        \/ Protect(r) \/ Upload(r) \/ SkipErrorHandler(r) \/ EnterHandler(r)
        \/ PictureFind(r) \/ PictureUpload(r) \/ PictureRetire(r) \/ PictureSave(r)
        \/ DeleteAccountFind(r) \/ DeleteAccountRetire(r) \/ DeleteAccountRemove(r)

SpecPicture == InitPicture /\ [][NextPicture]_vars

(***************************************************************************)
(* SpecStartup: the process from the moment its module loads, with probes  *)
(* of GET /health arriving once it listens.                                *)
(***************************************************************************)
HealthSlots == 3

InitStartup ==
    /\ server = Booting
    /\ users = NoDocs
    /\ stories = NoDocs
    /\ creator = NoDocs
    /\ reqs = [r \in 1..HealthSlots |-> IdleReq]
    /\ assets = {}
    /\ nextId = 1
    /\ now = 0

NextStartup ==
    \/ ConnectAttempt
    \/ StartServer
    \/ \E r \in 1..HealthSlots : Health(r)

SpecStartup == InitStartup /\ [][NextStartup]_vars

(***************************************************************************)
(* SpecOwnStories: users 1 and 2 list their own and each other's stories   *)
(* out of a collection of up to MaxOwned stories, each written by one of   *)
(* them, while user 1 deletes some of its own.                             *)
(***************************************************************************)
OwnSlots == 1
MaxOwned == 2

OwnQueries ==
    { q \in UNION { [fs -> {"-1", "2", "x", "1"}] : fs \in SUBSET {"page", "limit"} } :
        /\ Has(q, "page") => q.page \in {"-1", "2", "x"}
        /\ Has(q, "limit") => q.limit = "1" }

InitOwnStories ==
    /\ server = Serving
    /\ now = 0
    /\ \E n \in 0..MaxOwned :
        /\ nextId = 10 + n
        /\ \E author \in [10..(9 + n) -> StoryUsers] :
            /\ creator = author
            /\ stories = [i \in 10..(9 + n) |->
                    NewStory([title |-> T5, content |-> C100, genre |-> "fantasy"], author[i], 0)]
            /\ users = [u \in StoryUsers |->
                    [SeedUsers[u] EXCEPT !.stories =
                        SelectSeq([k \in 1..n |-> 9 + k], LAMBDA i : author[i] = u)]]
    /\ reqs = [r \in 1..OwnSlots |-> IdleReq]
    /\ assets = {}

NextOwnStories ==
    \E r \in 1..OwnSlots :
        \/ \E u \in StoryUsers, i \in StoryUsers, q \in OwnQueries :
                Begin(r, "getUserStories", u, i, q)
        \/ UserStoriesFind(r) \/ UserStoriesCount(r)
        \/ \E i \in 10..(9 + MaxOwned) : Begin(r, "deleteStory", 1, i, NoBody)
        \/ DeleteStoryFind(r) \/ DeleteStoryPull(r) \/ DeleteStoryRemove(r)

SpecOwnStories == InitOwnStories /\ [][NextOwnStories]_vars

(***************************************************************************)
(* The properties.                                                         *)
(***************************************************************************)
Slots == DOMAIN reqs

Range(seq) == {seq[i] : i \in 1..Len(seq)}

\* The routes registered as protected.
ProtectedEndpoints ==
    { [mount |-> "users",   method |-> "GET",    path |-> <<"profile">>],
      [mount |-> "users",   method |-> "PUT",    path |-> <<"profile">>],
      [mount |-> "users",   method |-> "DELETE", path |-> <<"profile">>],
      [mount |-> "users",   method |-> "POST",   path |-> <<"profile", "picture">>],
      [mount |-> "stories", method |-> "GET",    path |-> <<"user", ":userId">>],
      [mount |-> "stories", method |-> "POST",   path |-> <<>>],
      [mount |-> "stories", method |-> "POST",   path |-> <<"generate">>],
      [mount |-> "stories", method |-> "PUT",    path |-> <<":id">>],
      [mount |-> "stories", method |-> "DELETE", path |-> <<":id">>],
      [mount |-> "stories", method |-> "POST",   path |-> <<":id", "like">>],
      [mount |-> "stories", method |-> "POST",   path |-> <<":id", "comments">>] }

RouteOf(e) ==
    LET table == Router(e.mount)
    IN  {i \in 1..Len(table) : table[i].method = e.method /\ table[i].path = e.path}

\* The request in slot r was routed to a protected endpoint.
OnProtectedRoute(r) ==
    LET q == reqs[r]
        k == FirstMatch(q.mount, q.method, q.segs)
    IN  /\ q.method # ""
        /\ k # 0
        /\ [mount |-> q.mount, method |-> q.method, path |-> Router(q.mount)[k].path]
                \in ProtectedEndpoints

Unauthenticated(r) == OnProtectedRoute(r) /\ reqs[r].token = 0

ProtectIsFirst ==
    \A e \in ProtectedEndpoints :
        /\ RouteOf(e) # {}
        /\ \A i \in RouteOf(e) : Router(e.mount)[i].chain[1] = "protect"

GateHolds ==
    \A r \in Slots :
        Unauthenticated(r) =>
            /\ reqs[r].h = "none"
            /\ ~reqs[r].uploadRan
            /\ reqs[r].user = 0
            /\ reqs[r].pc = "done" => reqs[r].status = 401

GateStep ==
    \A r \in Slots :
        (Unauthenticated(r)' /\ reqs'[r] # reqs[r]) => UNCHANGED <<users, stories, assets, nextId>>

\* C1: every protected route has protect first in its chain; a request to
\* one that carries no valid token never reaches the upload middleware or
\* the handler, is answered 401, and none of its steps changes the stored
\* users, stories or assets.
C1_ProtectedRoutesGated == [](ProtectIsFirst /\ GateHolds) /\ [][GateStep]_vars

\* A multipart POST /api/stories without a token, answered 401 with the
\* upload never run.
C1_Witness ==
    \E r \in Slots :
        /\ Unauthenticated(r)
        /\ reqs[r].mount = "stories" /\ reqs[r].method = "POST" /\ reqs[r].segs = <<>>
        /\ reqs[r].file = "ok"
        /\ reqs[r].pc = "done" /\ reqs[r].status = 401
        /\ ~reqs[r].uploadRan

\* The request in slot r is an update or delete about to run against an
\* existing story whose author is somebody else.
NonAuthorAtCheck(r) ==
    /\ reqs[r].pc = "handler"
    /\ reqs[r].h \in {"updateStory", "deleteStory"}
    /\ reqs[r].id \in DOMAIN stories
    /\ stories[reqs[r].id].author # reqs[r].user

NonAuthorStep ==
    \A r \in Slots :
        (NonAuthorAtCheck(r) /\ reqs'[r] # reqs[r]) =>
            /\ reqs'[r].pc = "done"
            /\ reqs'[r].status = 401
            /\ reqs'[r].msg = IF reqs[r].h = "updateStory"
                              THEN "Not authorized to update this story"
                              ELSE "Not authorized to delete this story"
            /\ UNCHANGED <<stories, users>>

\* A handler past its check read a story whose author is the requester.
WritersPassedCheck ==
    \A r \in Slots :
        reqs[r].pc \in {"updateWrite", "deletePull", "deleteRemove"} =>
            reqs[r].doc.author = reqs[r].user

\* C2: an update or delete of an existing story by a user who is not its
\* author is answered 401 in the step that reads the story, with the story
\* collection and every user's stories list unchanged; only a request that
\* passed the author check goes on to the writes.
C2_NonAuthorRejected == []WritersPassedCheck /\ [][NonAuthorStep]_vars

C2_Witness ==
    \E r \in Slots :
        /\ reqs[r].pc = "done" /\ reqs[r].status = 401
        /\ reqs[r].h \in {"updateStory", "deleteStory"}
        /\ reqs[r].id \in DOMAIN stories
        /\ stories[reqs[r].id].author # reqs[r].user
        /\ stories[reqs[r].id] = NewStory([title |-> T5, content |-> C100, genre |-> "fantasy"],
                                          stories[reqs[r].id].author, 0)

\* C3: every stored story's author is the user whose createStory request
\* created it.
C3_AuthorNeverChanges ==
    \A i \in DOMAIN stories : stories[i].author = creator[i]

\* C4: every stored story's wordCount is the number of pieces its stored
\* content splits into after trimming.
C4_WordCountMatchesContent ==
    \A i \in DOMAIN stories : stories[i].wordCount = CountWords(stories[i].content)

\* The save in slot r ends a like request that ran alone: nothing is in
\* flight beside it and the story is as the request read it.
LikeRanAlone(r) ==
    /\ reqs[r].pc = "likeSave"
    /\ \A o \in Slots \ {r} : Free(o)
    /\ reqs[r].id \in DOMAIN stories
    /\ stories[reqs[r].id].v = reqs[r].doc.v

\* C5: a like request that ran alone flips the requester's membership and
\* leaves everybody else's as it was, and a second one run right after it
\* brings the likes back to the members and the count they had before the
\* first.
C5_ToggleTwiceRestores ==
    [][\A r \in Slots :
        (LikeRanAlone(r) /\ reqs'[r].pc = "done" /\ reqs'[r].status = 200) =>
            LET u == reqs[r].user
                before == stories[reqs[r].id].likes
                once == stories'[reqs[r].id].likes
                twice == ToggledLikes(once, u)
            IN  /\ (u \in Range(once)) = (u \notin Range(before))
                /\ Range(once) \ {u} = Range(before) \ {u}
                /\ Range(twice) = Range(before)
                /\ Len(twice) = Len(before)]_vars

\* C6: a story's likes list holds each user id at most once.
C6_LikesHaveNoDuplicates ==
    \A i \in DOMAIN stories :
        \A j, k \in 1..Len(stories[i].likes) :
            stories[i].likes[j] = stories[i].likes[k] => j = k

FormatValid(body) ==
    /\ validateUsername(body) = ""
    /\ validateEmail(body) = ""
    /\ validatePassword(body, "password") = ""

EmailInUse(body) == \E o \in DOMAIN users : users[o].email = ToLowerCase(body.email)
UsernameInUse(body) == \E o \in DOMAIN users : users[o].username = TrimChars(body.username)

\* C7: a registration with valid input whose lowercased email is an
\* existing user's is answered 400 'Email is already registered' whatever
\* its username; one with an unused email and an existing username is
\* answered 400 'Username is already taken'; neither creates a user.
C7_DuplicateMessages ==
    [][\A r \in Slots :
        (/\ reqs[r].pc = "handler" /\ reqs[r].h = "registerUser"
         /\ FormatValid(reqs[r].body)
         /\ reqs'[r] # reqs[r]) =>
            /\ EmailInUse(reqs[r].body) =>
                    /\ reqs'[r].pc = "done" /\ reqs'[r].status = 400
                    /\ reqs'[r].msg = "Email is already registered"
            /\ (~EmailInUse(reqs[r].body) /\ UsernameInUse(reqs[r].body)) =>
                    /\ reqs'[r].pc = "done" /\ reqs'[r].status = 400
                    /\ reqs'[r].msg = "Username is already taken"
            /\ users' = users]_vars

LoginInputValid(body) ==
    /\ validateEmail(body) = ""
    /\ Has(body, "password") /\ body.password.len > 0

NoUserHasEmail(body) == ~EmailInUse(body)

WrongPassword(body) ==
    /\ EmailInUse(body)
    /\ \A o \in DOMAIN users :
        users[o].email = ToLowerCase(body.email) => ~MatchPassword(users[o], body.password)

\* C9: a login with a well-formed email and a non-empty password is
\* answered 401 'Invalid email or password' both when no user has the
\* email and when a user has it but the password does not match, and the
\* failed login changes nothing that is stored.
C9_LoginFailuresAlike ==
    [][\A r \in Slots :
        (/\ reqs[r].pc = "handler" /\ reqs[r].h = "loginUser"
         /\ LoginInputValid(reqs[r].body)
         /\ NoUserHasEmail(reqs[r].body) \/ WrongPassword(reqs[r].body)
         /\ reqs'[r] # reqs[r]) =>
            /\ reqs'[r].pc = "done"
            /\ reqs'[r].status = 401
            /\ reqs'[r].msg = "Invalid email or password"
            /\ UNCHANGED <<users, stories, assets, nextId>>]_vars

\* Two failed logins side by side, one for an email nobody has and one for
\* a registered email with the wrong password, with the same answer.
C9_Witness ==
    \E r1, r2 \in Slots :
        /\ reqs[r1].pc = "done" /\ reqs[r1].h = "loginUser" /\ reqs[r1].id = 0
        /\ reqs[r2].pc = "done" /\ reqs[r2].h = "loginUser" /\ reqs[r2].id \in DOMAIN users
        /\ reqs[r1].status = 401 /\ reqs[r2].status = 401
        /\ reqs[r1].msg = reqs[r2].msg

\* The token of the body is a string equal to the stored token of a user
\* whose expiry is later than now, and the new password is valid.
ResetAcceptable(body) ==
    /\ Has(body, "token")
    /\ body.token.t = "string" /\ body.token.v # 0
    /\ \E o \in DOMAIN users : /\ users[o].resetPasswordToken = body.token.v
                               /\ users[o].resetPasswordExpire > now
    /\ validatePassword(body, "newPassword") = ""

\* C10: a reset whose token is absent, is no user's stored token or is a
\* stored token that has expired, or whose new password is not 6 to 128
\* characters long, is answered 400 and changes no user; only a reset with
\* a stored, unexpired token and a valid password goes on to the write.
C10_ResetNeedsTheToken ==
    [][\A r \in Slots :
        (/\ reqs[r].pc = "handler" /\ reqs[r].h = "resetPassword"
         /\ ~ResetAcceptable(reqs[r].body)
         /\ reqs'[r] # reqs[r]) =>
            /\ reqs'[r].pc = "done"
            /\ reqs'[r].status = 400
            /\ users' = users]_vars

\* A user has a reset token exactly when it has a reset expiry.
TokenAndExpiryTogether ==
    \A o \in DOMAIN users :
        (users[o].resetPasswordToken = 0) = (users[o].resetPasswordExpire = 0)

\* The tokens stored and the tokens on their way to be stored are all
\* different and were all issued.
TokensIssuedOnce ==
    LET stored == {o \in DOMAIN users : users[o].resetPasswordToken # 0}
        coming == {r \in Slots : reqs[r].pc = "forgotSave"}
    IN  /\ \A o \in stored : users[o].resetPasswordToken < nextId
        /\ \A r \in coming : reqs[r].doc.resetPasswordToken < nextId
        /\ \A a, b \in stored : a # b => users[a].resetPasswordToken # users[b].resetPasswordToken
        /\ \A a, b \in coming : a # b => reqs[a].doc.resetPasswordToken # reqs[b].doc.resetPasswordToken
        /\ \A o \in stored, r \in coming : users[o].resetPasswordToken # reqs[r].doc.resetPasswordToken

\* The write of a reset: password, token and expiry change in one step.
ResetWritesTogether ==
    \A r \in Slots :
        (reqs[r].pc = "resetSave" /\ reqs'[r] # reqs[r] /\ reqs'[r].status = 200) =>
            LET o == reqs[r].id IN
            /\ users'[o].password = Hash(reqs[r].body.newPassword)
            /\ users'[o].resetPasswordToken = 0
            /\ users'[o].resetPasswordExpire = 0
            /\ reqs[r].token # 0 => \A u \in DOMAIN users' : users'[u].resetPasswordToken # reqs[r].token

\* A token is cleared only by the write of a reset.
ClearedOnlyByReset ==
    \A o \in DOMAIN users :
        (users[o].resetPasswordToken # 0 /\ users'[o].resetPasswordToken = 0) =>
            \E r \in Slots : /\ reqs[r].pc = "resetSave" /\ reqs[r].id = o
                              /\ reqs'[r].pc = "done" /\ reqs'[r].status = 200
                              /\ users'[o].password = Hash(reqs[r].body.newPassword)

\* A reset that arrives with a token no user stores is answered 400.
SpentTokenRefused ==
    \A r \in Slots :
        (/\ reqs[r].pc = "handler" /\ reqs[r].h = "resetPassword"
         /\ SubmittedToken(reqs[r].body) # 0
         /\ \A o \in DOMAIN users : users[o].resetPasswordToken # SubmittedToken(reqs[r].body)
         /\ reqs'[r] # reqs[r]) =>
            /\ reqs'[r].pc = "done" /\ reqs'[r].status = 400
            /\ users' = users

\* C11: the write of a successful reset replaces the password and clears
\* the token and its expiry in one step, and a token is cleared by nothing
\* else; after it no user stores that token, tokens are issued once, and a
\* reset arriving with a token no user stores is answered 400.
C11_ResetTokenSingleUse ==
    /\ [](TokenAndExpiryTogether /\ TokensIssuedOnce)
    /\ [][ResetWritesTogether /\ ClearedOnlyByReset /\ SpentTokenRefused]_vars

\* The one token ever issued was used by a reset, and a reset that came
\* with it afterwards was answered 400.
C11_Witness ==
    /\ nextId = 101
    /\ \A o \in DOMAIN users : users[o].resetPasswordToken = 0 /\ users[o].resetPasswordExpire = 0
    /\ \E o \in DOMAIN users : users[o].password = Hash(Pw2) /\ SeedUsers[o].password # Hash(Pw2)
    /\ \E r \in Slots :
        /\ reqs[r].pc = "done" /\ reqs[r].h = "resetPassword"
        /\ reqs[r].token = 100
        /\ reqs[r].status = 400 /\ reqs[r].msg = "Invalid or expired reset token"

GenerateSteps == {"genNarrative", "genTitle", "genGenre"}

\* Slot r is a generation that answers in this step.
GenerateAnswers(r) ==
    /\ reqs[r].h = "generateAIStory" /\ reqs[r].pc # "done"
    /\ reqs'[r].h = "generateAIStory" /\ reqs'[r].pc = "done"

\* C12: a generation whose upstream reply fails at any of the three steps
\* answers 500 with none of title, content and genre; it answers 200 only
\* after three well-formed replies, and then with title, content, genre and
\* isAIGenerated = true; no step of a generation changes the stored stories
\* or users.
C12_GenerateAllOrNothing ==
    [][\A r \in Slots :
        /\ (reqs[r].h = "generateAIStory" /\ reqs'[r] # reqs[r] /\ reqs[r].pc # "done") =>
                UNCHANGED <<stories, users>>
        /\ GenerateAnswers(r) =>
            /\ reqs'[r].status \in {200, 400, 500}
            /\ reqs'[r].status # 200 => reqs'[r].data = NoBody
            /\ (reqs[r].pc \in GenerateSteps /\ reqs'[r].status # 200) => reqs'[r].status = 500
            /\ reqs'[r].status = 200 =>
                /\ reqs[r].pc = "genGenre"
                /\ reqs[r].calls = <<"narrative", "title", "genre">>
                /\ DOMAIN reqs'[r].data = {"title", "content", "genre", "isAIGenerated"}
                /\ reqs'[r].data.isAIGenerated = TRUE
                /\ reqs'[r].data.title = reqs[r].doc.title
                /\ reqs'[r].data.content = reqs[r].doc.content]_vars

\* A generation that got its narrative and then lost the title answered
\* 500 without data, with nothing stored.
C12_Witness ==
    \E r \in Slots :
        /\ reqs[r].pc = "done" /\ reqs[r].h = "generateAIStory"
        /\ reqs[r].calls = <<"narrative", "title">>
        /\ reqs[r].status = 500 /\ reqs[r].data = NoBody
        /\ stories = NoDocs

IsPrefix(a, b) == Len(a) <= Len(b) /\ a = SubSeq(b, 1, Len(a))

\* C13: the upstream requests of a generation are a prefix of narrative,
\* title, genre, each issued in the step that found the one before it
\* well-formed; a generation answered at its checks has issued none, and an
\* empty prompt is answered 400 even when the key is unset.
C13_UpstreamOrder ==
    /\ [](\A r \in Slots :
            /\ IsPrefix(reqs[r].calls, <<"narrative", "title", "genre">>)
            /\ reqs[r].pc = "genNarrative" => reqs[r].calls = <<"narrative">>
            /\ reqs[r].pc = "genTitle" => reqs[r].calls = <<"narrative", "title">>
            /\ reqs[r].pc = "genGenre" => reqs[r].calls = <<"narrative", "title", "genre">>)
    /\ [][\A r \in Slots :
            /\ GenerateAnswers(r) => reqs'[r].calls = reqs[r].calls
            /\ (reqs[r].pc = "handler" /\ reqs[r].h = "generateAIStory" /\ reqs'[r] # reqs[r]) =>
                /\ Missing(reqs[r].body, "prompt") =>
                        reqs'[r].pc = "done" /\ reqs'[r].status = 400 /\ reqs'[r].calls = <<>>
                /\ (~Missing(reqs[r].body, "prompt") /\ ~reqs[r].apiKey) =>
                        reqs'[r].pc = "done" /\ reqs'[r].status = 500 /\ reqs'[r].calls = <<>>
                /\ (~Missing(reqs[r].body, "prompt") /\ reqs[r].apiKey) =>
                        reqs'[r].pc = "genNarrative"]_vars

\* A generation whose narrative reply failed: answered 500 having issued the
\* narrative request and no other.
C13_Witness ==
    \E r \in Slots :
        /\ reqs[r].pc = "done" /\ reqs[r].h = "generateAIStory"
        /\ reqs[r].apiKey
        /\ reqs[r].status = 500 /\ reqs[r].calls = <<"narrative">>

\* Slot r is a createStory that runs its checks in this step, on a body
\* whose title and content pass them.
CreateChecksGenre(r) ==
    /\ reqs[r].pc = "handler" /\ reqs[r].h = "createStory" /\ reqs'[r] # reqs[r]
    /\ ~Missing(reqs[r].body, "title") /\ ~Missing(reqs[r].body, "content")
    /\ Has(reqs[r].body, "genre")
    /\ StrLen(reqs[r].body.content) >= ContentMinLength
    /\ StrLen(reqs[r].body.title) <= TitleMaxLength

\* C14: createStory rejects a genre with 400 exactly when it is not one of
\* the twenty genres of the Story schema, so that a generated story whose
\* genre is one of them is accepted when it is posted.
C14_CreateAcceptsSchemaGenres ==
    [][\A r \in Slots :
        CreateChecksGenre(r) =>
            (reqs'[r].status = 400 <=> reqs[r].body.genre \notin SchemaGenres)]_vars

\* The body names a content that is not empty and shorter than the minimum.
ContentTooShort(body) ==
    /\ ~Missing(body, "content")
    /\ StrLen(body.content) < ContentMinLength

\* The body names a content of exactly the minimum length, and what else it
\* names is valid.
ContentJustEnough(body) ==
    /\ ~Missing(body, "content")
    /\ StrLen(body.content) = ContentMinLength
    /\ \A f \in (DOMAIN body \cap StoryPaths) \ {"content"} : PathValid(f, PathSet(f, body[f]))

\* Slot r is a createStory that checks its body in this step.
CreateChecks(r) ==
    /\ reqs[r].h = "createStory" /\ reqs[r].pc \in {"handler", "createInsert"}
    /\ reqs'[r].pc \notin {"handler", "createInsert"}

\* Slot r is an updateStory that writes or is refused in this step.
UpdateWrites(r) == reqs[r].pc = "updateWrite" /\ reqs'[r].pc # "updateWrite"

\* C15: no stored story has a content shorter than 100 characters;
\* createStory and updateStory answer 400 and change nothing when the
\* content is not empty and shorter than 100, and store a content of
\* exactly 100 characters.
C15_ContentAtLeastMinimum ==
    /\ [](\A i \in DOMAIN stories : StrLen(stories[i].content) >= ContentMinLength)
    /\ [][\A r \in Slots :
            /\ (CreateChecks(r) /\ ContentTooShort(reqs[r].body)) =>
                    reqs'[r].status = 400 /\ UNCHANGED <<stories, users>>
            /\ (UpdateWrites(r) /\ ContentTooShort(reqs[r].body)) =>
                    reqs'[r].status = 400 /\ UNCHANGED <<stories, users>>
            /\ (CreateChecks(r) /\ ContentJustEnough(reqs[r].body)
                    /\ Has(reqs[r].body, "genre") /\ reqs[r].body.genre \in validGenres
                    /\ ~Missing(reqs[r].body, "title")
                    /\ (reqs[r].pc = "createInsert" \/ reqs[r].file # "ok")) =>
                    /\ reqs'[r].pc = "createPush"
                    /\ stories'[reqs'[r].id].content = reqs[r].body.content
            /\ (UpdateWrites(r) /\ ContentJustEnough(reqs[r].body)
                    /\ reqs[r].id \in DOMAIN stories) =>
                    /\ reqs'[r].status = 200
                    /\ stories'[reqs[r].id].content = reqs[r].body.content]_vars

\* A story created with a longer content now holds one of exactly 100
\* characters, and a later update of it was refused.
C15_Witness ==
    \E i \in DOMAIN stories, r \in Slots :
        /\ stories[i].genre = "horror" /\ stories[i].content = C100
        /\ reqs[r].pc = "done" /\ reqs[r].h = "updateStory" /\ reqs[r].id = i
        /\ reqs[r].status = 400

\* Slot r is a listing that has answered, whose two reads saw the same
\* stories, all still stored, and whose page and limit were left out,
\* unparsable or at least 1.
Listed(r) ==
    /\ reqs[r].pc = "done" /\ reqs[r].h = "getStories" /\ reqs[r].status = 200
    /\ reqs[r].doc.found = reqs[r].doc.counted
    /\ reqs[r].doc.found \subseteq DOMAIN stories
    /\ ParseInt(reqs[r].doc.query, "page") # {0}
    /\ ParseInt(reqs[r].doc.query, "limit") # {0}

PageAsked(r) ==
    LET n == ParseInt(reqs[r].doc.query, "page") IN IF n = {} THEN 1 ELSE CHOOSE x \in n : TRUE

LimitAsked(r) ==
    LET n == ParseInt(reqs[r].doc.query, "limit") IN IF n = {} THEN 10 ELSE CHOOSE x \in n : TRUE

\* min(L, max(0, N - (p - 1) L))
PageSize(n, p, l) ==
    LET rest == IF n - (p - 1) * l < 0 THEN 0 ELSE n - (p - 1) * l
    IN  IF l < rest THEN l ELSE rest

\* Two listings of the same stories with the same filter and limit.
SameListing(r, o) ==
    /\ Listed(r) /\ Listed(o)
    /\ reqs[r].doc.found = reqs[o].doc.found
    /\ LimitAsked(r) = LimitAsked(o)
    /\ Has(reqs[r].doc.query, "genre") = Has(reqs[o].doc.query, "genre")

\* C16: a listing of N matching stories at page p and limit L answers with
\* min(L, max(0, N - (p-1)L)) of them, newest first, with total N and
\* ceil(N/L) pages; different pages of the same listing share no story, and
\* the pages 1..ceil(N/L) together hold every matching story.
C16_PagesPartitionTheListing ==
    /\ \A r \in Slots : Listed(r) =>
        LET d == reqs[r].data
            n == Cardinality(reqs[r].doc.found)
        IN  /\ Len(d.stories) = PageSize(n, PageAsked(r), LimitAsked(r))
            /\ d.total = n
            /\ d.pages * LimitAsked(r) >= n /\ (d.pages - 1) * LimitAsked(r) < n
            /\ Range(d.stories) \subseteq reqs[r].doc.found
            /\ \A a, b \in 1..Len(d.stories) :
                    a < b => /\ d.stories[a] # d.stories[b]
                             /\ stories[d.stories[a]].createdAt >= stories[d.stories[b]].createdAt
    /\ \A r, o \in Slots : (SameListing(r, o) /\ PageAsked(r) # PageAsked(o)) =>
            /\ Range(reqs[r].data.stories) \cap Range(reqs[o].data.stories) = {}
            /\ {PageAsked(r), PageAsked(o)} = 1..reqs[r].data.pages =>
                    Range(reqs[r].data.stories) \cup Range(reqs[o].data.stories) = reqs[r].doc.found

\* Slot r holds a request to POST /api/users/profile/picture.
PictureRoute(r) == reqs[r].method = "POST" /\ reqs[r].segs = <<"profile", "picture">>

\* Slot r makes a call to the asset host in this step.
Calls(r, outcomes) ==
    /\ Len(reqs'[r].calls) = Len(reqs[r].calls) + 1
    /\ reqs'[r].calls[Len(reqs'[r].calls)] \in outcomes

\* C17: a picture upload publishes, then tries to retire the old asset,
\* then stores the new URL: the retire is tried only after a publish that
\* succeeded and only when the old picture is an asset of the user's own,
\* the URL is stored only after both, and a request without a file, with an
\* image of another type or with a file over the size limit is answered
\* 400 with no call to the asset host.
C17_PublishRetireCommit ==
    /\ [](\A r \in Slots : PictureRoute(r) =>
            /\ reqs[r].calls \in { <<>>, <<"publish error">>, <<"publish ok">>,
                                   <<"publish ok", "retire ok">>, <<"publish ok", "retire error">> }
            /\ reqs[r].file # "ok" => reqs[r].calls = <<>>
            /\ (reqs[r].pc = "done" /\ reqs[r].file # "ok" /\ reqs[r].token # 0) =>
                    reqs[r].status = 400)
    /\ [][\A r \in Slots : PictureRoute(r) =>
            /\ Calls(r, {"retire ok", "retire error"}) =>
                    /\ reqs[r].calls = <<"publish ok">>
                    /\ Retirable(reqs[r].doc.old)
                    /\ reqs[r].doc.new \in assets
                    /\ users' = users
            /\ Calls(r, {"publish ok", "publish error"}) =>
                    reqs[r].calls = <<>> /\ users' = users
            /\ (reqs'[r] # reqs[r] /\ users' # users) =>
                    /\ reqs[r].calls \in
                            IF Retirable(reqs[r].doc.old)
                            THEN {<<"publish ok", "retire ok">>, <<"publish ok", "retire error">>}
                            ELSE {<<"publish ok">>}
                    /\ reqs'[r].calls = reqs[r].calls
                    /\ users'[reqs[r].user].profilePicture = reqs[r].doc.new]_vars

\* An upload that published the new picture, retired the old one and
\* stored the new URL.
C17_Witness ==
    \E r \in Slots :
        /\ PictureRoute(r) /\ reqs[r].pc = "done" /\ reqs[r].status = 200
        /\ reqs[r].calls = <<"publish ok", "retire ok">>
        /\ 1 \in DOMAIN users /\ users[1].profilePicture = reqs[r].data.profilePicture
        /\ 1 \notin assets

\* C18: a retire call that fails answers nothing itself; the upload it
\* belongs to goes on to its save, which can store the new URL and answer
\* 200 and answers 500 only when the save itself throws, and the account
\* deletion it belongs to still removes the user and answers 200.
C18_RetireFailureSwallowed ==
    [][\A r \in Slots :
        /\ (reqs[r].pc \in {"pictureRetire", "accountRetire"} /\ reqs'[r] # reqs[r]) =>
                reqs'[r].pc # "done"
        /\ (reqs[r].pc = "pictureSave" /\ reqs'[r] # reqs[r]
                /\ reqs[r].calls = <<"publish ok", "retire error">>
                /\ reqs[r].user \in DOMAIN users) =>
                /\ reqs'[r].pc = "done"
                /\ \/ /\ reqs'[r].status = 200
                      /\ users'[reqs[r].user].profilePicture = reqs[r].doc.new
                   \/ reqs'[r].status = 500 /\ users' = users
                /\ ENABLED (PictureSave(r) /\ reqs'[r].status = 200)
        /\ (reqs[r].pc = "accountDelete" /\ reqs'[r] # reqs[r]
                /\ reqs[r].calls = <<"retire error">>) =>
                /\ reqs'[r].pc = "done" /\ reqs'[r].status = 200
                /\ reqs[r].user \notin DOMAIN users']_vars

\* An account deletion answered 200 although its retire call failed, after
\* an upload that stored its picture although its retire call failed: the
\* user is gone and both assets are still at the host.
C18_Witness ==
    \E r \in Slots :
        /\ reqs[r].h = "deleteUserAccount" /\ reqs[r].pc = "done" /\ reqs[r].status = 200
        /\ reqs[r].calls = <<"retire error">>
        /\ reqs[r].doc = NoBody
        /\ 1 \notin DOMAIN users
        /\ {1, 2} \subseteq assets

\* Slot r is a createStory with an image whose upload fails in this step:
\* the handler answers from where the upload was awaited.
CreateUploadFails(r) ==
    /\ reqs[r].pc = "handler" /\ reqs[r].h = "createStory" /\ reqs[r].file = "ok"
    /\ reqs'[r].pc = "done"

\* C19: a createStory whose image upload fails answers 500 after that one
\* attempt, and neither a story nor an asset nor a change to a user is
\* stored.
C19_UploadFailureAnswers500 ==
    [][\A r \in Slots :
        CreateUploadFails(r) =>
            /\ reqs'[r].status = 500
            /\ UNCHANGED <<stories, users, assets>>]_vars

\* No request is in flight.
Quiescent == \A r \in Slots : Free(r)

\* C20: when no request is in flight, every user's stories list holds the
\* ids of the stored stories whose author is that user, each once, and
\* nothing else.
C20_ListsMatchAuthorship ==
    Quiescent =>
        \A u \in DOMAIN users :
            /\ Range(users[u].stories) = {i \in DOMAIN stories : stories[i].author = u}
            /\ \A a, b \in 1..Len(users[u].stories) :
                    a # b => users[u].stories[a] # users[u].stories[b]

\* C21: while a story exists its comments only grow at the end: every step
\* leaves the comments it had in place and in order, a successful
\* addComment adds exactly one, by the requester, and an addComment on a
\* story that does not exist answers 404 and changes nothing.
C21_CommentsAppendOnly ==
    [][/\ \A i \in DOMAIN stories \cap DOMAIN stories' :
            IsPrefix(stories[i].comments, stories'[i].comments)
       /\ \A r \in Slots :
            /\ (reqs[r].pc = "commentSave" /\ reqs'[r].pc = "commentRead") =>
                    /\ Len(stories'[reqs[r].id].comments) = Len(stories[reqs[r].id].comments) + 1
                    /\ stories'[reqs[r].id].comments[Len(stories'[reqs[r].id].comments)].user
                            = reqs[r].user
            /\ (reqs[r].pc = "handler" /\ reqs[r].h = "addComment" /\ reqs'[r] # reqs[r]
                    /\ reqs[r].id \notin DOMAIN stories) =>
                    reqs'[r].status = 404 /\ UNCHANGED <<stories, users>>]_vars

\* C22: connectWithRetry calls connectDB at most five times and not again
\* after a call that connected; when it has finished the flag tells whether
\* a call connected; and between a call that failed and the next call the
\* interval of 5000 ms passes.
C22_RetriesWithBackoff ==
    /\ [](/\ server.attempts <= Retries
          /\ server.succeeded => server.pc = "finished"
          /\ server.pc = "finished" => (server.dbConnected <=> server.succeeded))
    /\ [][(server'.attempts = server.attempts + 1 /\ server'.pc = "attempt") =>
                now' = now + Interval]_vars

\* C23: every probe of GET /health is answered 'degraded' and
\* 'disconnected' while no call of connectDB has connected, and 'ok' and
\* 'connected' once one has; the process answers probes also when all five
\* calls have failed.
C23_HealthTellsTheFlag ==
    [][\A r \in Slots :
        (reqs'[r] # reqs[r] /\ reqs'[r].h = "health") =>
            /\ server.listening
            /\ reqs'[r].status = 200
            /\ reqs'[r].data = IF server.succeeded
                               THEN [status |-> "ok", database |-> "connected"]
                               ELSE [status |-> "degraded", database |-> "disconnected"]]_vars

\* All five calls have failed, the server listens, and a probe has been
\* answered 'degraded'.
C23_Witness ==
    \E r \in Slots :
        /\ server.pc = "finished" /\ server.attempts = Retries /\ ~server.succeeded
        /\ server.listening
        /\ reqs[r].h = "health" /\ reqs[r].pc = "done"
        /\ reqs[r].data.status = "degraded"

\* Slot r is a getUserStories that answers in this step.
OwnAnswers(r) ==
    /\ reqs[r].h = "getUserStories" /\ reqs[r].pc \in {"handler", "userCount"}
    /\ reqs'[r].pc = "done"

\* A getUserStories for another user's id is answered 401 without data,
\* and the stories a listing picks are the requester's.
OwnOnly ==
    \A r \in Slots :
        /\ (OwnAnswers(r) /\ reqs[r].id # reqs[r].user) =>
                reqs'[r].status = 401 /\ reqs'[r].data = NoBody
        /\ (reqs[r].pc = "handler" /\ reqs'[r].pc = "userCount") =>
                \A i \in Range(reqs'[r].doc.stories) : stories[i].author = reqs[r].user
        /\ (OwnAnswers(r) /\ reqs'[r].status = 200) =>
                reqs[r].id = reqs[r].user

\* The answer to a requester without stories is the empty result.
EmptyWhenNone(r) ==
    /\ reqs'[r].status = 200
    /\ reqs'[r].msg = "No stories have been written yet"
    /\ reqs'[r].data = EmptyResult

C25_DeleteAccountFrame ==
    [][\A r \in Slots :
        (reqs[r].h = "deleteUserAccount" /\ reqs[r].pc # "done" /\ reqs'[r] # reqs[r]) =>
            /\ stories' = stories
            /\ \A u \in DOMAIN users \ {reqs[r].user} : u \in DOMAIN users' /\ users'[u] = users[u]
            /\ reqs[r].user \in DOMAIN users' => users'[reqs[r].user] = users[reqs[r].user]
            /\ (reqs'[r].pc = "done" /\ reqs'[r].status = 200) => reqs[r].user \notin DOMAIN users'
            /\ assets' \subseteq assets
            /\ \A a \in assets \ assets' :
                    reqs[r].pc = "accountRetire" /\ a = reqs[r].doc.old
      ]_vars

\* User 1's account is gone and story 10 still names user 1 as its author,
\* among its likes and as the writer of its comment.
C25_Witness ==
    /\ 1 \notin DOMAIN users
    /\ \E r \in Slots :
            reqs[r].h = "deleteUserAccount" /\ reqs[r].pc = "done" /\ reqs[r].status = 200
    /\ 10 \in DOMAIN stories
    /\ stories[10].author = 1
    /\ Includes(stories[10].likes, 1)
    /\ \E k \in 1..Len(stories[10].comments) : stories[10].comments[k].user = 1

\* Slot r's like request is at its save, and since it read the story one
\* save was stored, by a like request of another user that has answered.
ToggleRaced(r) ==
    /\ reqs[r].pc = "likeSave"
    /\ reqs[r].id \in DOMAIN stories
    /\ stories[reqs[r].id].v = reqs[r].doc.v + 1
    /\ \E s \in Slots \ {r} :
        /\ reqs[s].h = "toggleLikeStory" /\ reqs[s].pc = "done" /\ reqs[s].status = 200
        /\ reqs[s].id = reqs[r].id /\ reqs[s].user # reqs[r].user

\* C26 as stated: of two like requests of different users that both read
\* the story before either saved, the later save is accepted too.
C26_NeitherSaveIsStale ==
    [][\A r \in Slots :
        (ToggleRaced(r) /\ reqs'[r].pc = "done") => reqs'[r].status = 200]_vars

\* C26: the save of a like request is refused exactly when the request
\* removes its user (the likes array is assigned as a whole) and the story
\* was saved since the request read it; a refused save stores nothing, and
\* an accepted one flips the requester's membership in the stored likes
\* and keeps every other user's membership as stored.
C26_StaleUnlikeRefused ==
    [][\A r \in Slots :
        (reqs[r].pc = "likeSave" /\ reqs'[r].pc = "done" /\ reqs[r].id \in DOMAIN stories) =>
            LET q == reqs[r]
                stale == stories[q.id].v # q.doc.v
                before == stories[q.id].likes
                after == stories'[q.id].likes
            IN  IF q.doc.op = "set" /\ stale
                THEN reqs'[r].status = 400 /\ stories' = stories
                ELSE /\ reqs'[r].status = 200
                     /\ \A w \in StoryUsers \ {q.user} : Includes(after, w) = Includes(before, w)
                     /\ Includes(after, q.user) = (q.doc.op = "push")]_vars

\* User 2's unlike was refused as stale after user 1's like, read from the
\* same stored story, was saved: both are in the stored likes.
C26_Witness ==
    \E r, s \in Slots :
        /\ reqs[r].h = "toggleLikeStory" /\ reqs[r].pc = "done"
        /\ reqs[r].user = 2 /\ reqs[r].status = 400 /\ reqs[r].msg = "VersionError"
        /\ reqs[s].h = "toggleLikeStory" /\ reqs[s].pc = "done"
        /\ reqs[s].user = 1 /\ reqs[s].status = 200
        /\ stories[10].likes = <<2, 1>>

\* C27: a createStory request that answers with a failure leaves nothing
\* behind: the step that answers stores no story and adds to no user's
\* list, and the image the request published, if any, is not left on the
\* asset host.
C27_FailedCreateLeavesNothing ==
    [][\A r \in Slots :
        (/\ reqs[r].h = "createStory" /\ reqs[r].pc # "done"
         /\ reqs'[r].pc = "done" /\ reqs'[r].status # 201) =>
            /\ stories' = stories
            /\ users' = users
            /\ reqs[r].pc = "createInsert" => reqs[r].doc.image \notin assets']_vars

\* C28: with no request in flight, a user's stored profile picture, when
\* it is a hosted one, is an asset that is on the asset host.
C28_PictureIsPublished ==
    Quiescent =>
        \A u \in DOMAIN users :
            Retirable(users[u].profilePicture) => users[u].profilePicture \in assets

\* The tokens a reset request could submit now for user o and be let
\* through to the write.
UsableTokens(o) == {t \in 100..nextId : o \in ResetMatches(StrToken(t))}

\* The save of a forgotPassword replaces the user's token by one never
\* stored before and the expiry by the one drawn with it, at most one hour
\* ahead; the token held before is stored by nobody afterwards.
ForgotOverwrites ==
    \A r \in Slots :
        (reqs[r].pc = "forgotSave" /\ reqs'[r].pc = "done" /\ reqs[r].id \in DOMAIN users) =>
            LET o == reqs[r].id
                old == users[o].resetPasswordToken
            IN  /\ reqs'[r].status = 200 /\ reqs'[r].token = users'[o].resetPasswordToken
                /\ users'[o].resetPasswordToken # 0
                /\ users'[o].resetPasswordToken # old
                /\ users'[o].resetPasswordExpire = reqs[r].doc.resetPasswordExpire
                /\ users'[o].resetPasswordExpire <= now + ResetTokenTTL
                /\ old # 0 => \A p \in DOMAIN users' : users'[p].resetPasswordToken # old

\* A user's token and expiry change only at the save of a forgotPassword
\* or of a resetPassword for that user.
TokenKeptUntilUsed ==
    \A o \in DOMAIN users :
        (\/ o \notin DOMAIN users'
         \/ users'[o].resetPasswordToken # users[o].resetPasswordToken
         \/ users'[o].resetPasswordExpire # users[o].resetPasswordExpire) =>
            \E r \in Slots :
                /\ reqs[r].pc \in {"forgotSave", "resetSave"} /\ reqs[r].id = o
                /\ reqs'[r].pc = "done" /\ reqs'[r].status = 200

\* The lookup of a reset that submits a string token and a valid password
\* lets it through exactly when a user stores that token unexpired.
LookupTakesTheStoredToken ==
    \A r \in Slots :
        (/\ reqs[r].pc = "handler" /\ reqs[r].h = "resetPassword" /\ reqs'[r] # reqs[r]
         /\ SubmittedToken(reqs[r].body) # 0
         /\ validatePassword(reqs[r].body, "newPassword") = "") =>
            LET t == SubmittedToken(reqs[r].body)
                holders == {o \in DOMAIN users : t \in UsableTokens(o)}
            IN  IF holders = {}
                THEN reqs'[r].pc = "done" /\ reqs'[r].status = 400
                ELSE reqs'[r].pc = "resetSave" /\ reqs'[r].id \in holders

\* A forgotPassword for an email no user has is answered 404 and changes
\* nothing, not even the token counter.
UnknownEmailChangesNothing ==
    \A r \in Slots :
        (/\ reqs[r].pc = "handler" /\ reqs[r].h = "forgotPassword" /\ reqs'[r] # reqs[r]
         /\ validateEmail(reqs[r].body) = ""
         /\ \A o \in DOMAIN users : users[o].email # ToLowerCase(reqs[r].body.email)) =>
            /\ reqs'[r].pc = "done" /\ reqs'[r].status = 404
            /\ UNCHANGED <<users, nextId>>

====
